---- MODULE Spec2Model ----
(***************************************************************************)
(* YFeed: feed aggregation and metadata caching.                           *)
(*                                                                         *)
(* The model follows src/src/utils/manager.py (YouTubeFeedManager:         *)
(* load_cache, save_cache, iso_duration_to_seconds, fetch_feed,            *)
(* fetch_videos) and src/src/utils/interface.py (Interface.videos_menu,    *)
(* days_filter, length_filter). manager.parse_feeds, which videos_menu     *)
(* calls, is not among the sources; it is modelled from its callers, its   *)
(* tests (src/tests/test_manager.py) and the specification.                *)
(*                                                                         *)
(* Texts are sequences of tokens, so that parsing is computed and not      *)
(* assumed: an entry id is a sequence of chunks and ":" separators, a      *)
(* duration text is a sequence of letters and digit runs, a timestamp text *)
(* carries whether it has the fixed wire format and the instant it names.  *)
(***************************************************************************)
EXTENDS Integers, Sequences, FiniteSets, TLC

\* ------------------------------------------------------------------ bounds

\* longest feed document (number of entries) the model enumerates
MaxEntries == 2
\* length_filter accepts any positive number of minutes; the model 1..MaxMinLength
MaxMinLength == 2
\* days_filter accepts any positive number of days; the model 1 and MaxDays
MaxDays == 2

\* ------------------------------------------------------- program constants

\* utils.settings.MAX_SECONDS, the fixed duration ceiling (seconds),
\* imported at manager.py line 15. settings.py is not among the sources;
\* twelve hours is taken. Every ceiling between the sample durations of
\* ten minutes and one day gives the same behaviours.
MAX_SECONDS == 43200

\* ------------------------------------------------------------------- texts

Tok(k) == [k |-> k, n |-> 0]
Num(n) == [k |-> "num", n |-> n]

\* contentDetails.duration texts the enrichment service may answer with
PT1M30S == <<Tok("P"), Tok("T"), Num(1), Tok("M"), Num(30), Tok("S")>>
PT2M == <<Tok("P"), Tok("T"), Num(2), Tok("M")>>
PT10M == <<Tok("P"), Tok("T"), Num(10), Tok("M")>>
P1D == <<Tok("P"), Num(1), Tok("D")>>

\* re.match(r"PT(?:(\d+)H)?(?:(\d+)M)?(?:(\d+)S)?|P(\d+)D?", duration):
\* the first alternative matches every text that starts with "PT", each
\* group only when a digit run is directly followed by its letter; the
\* second alternative is tried only when the first does not match.
IsNumThen(d, pos, letter) ==
    /\ pos + 1 <= Len(d)
    /\ d[pos].k = "num"
    /\ d[pos + 1].k = letter

DurationMatch(d) ==
    IF Len(d) >= 2 /\ d[1].k = "P" /\ d[2].k = "T"
    THEN LET hp == 3
             h == IF IsNumThen(d, hp, "H") THEN d[hp].n ELSE 0
             mp == IF IsNumThen(d, hp, "H") THEN hp + 2 ELSE hp
             m == IF IsNumThen(d, mp, "M") THEN d[mp].n ELSE 0
             sp == IF IsNumThen(d, mp, "M") THEN mp + 2 ELSE mp
             s == IF IsNumThen(d, sp, "S") THEN d[sp].n ELSE 0
         IN [matched |-> TRUE, days |-> 0, hours |-> h, minutes |-> m, seconds |-> s,
             groups |-> {g \in {"H"} : IsNumThen(d, hp, "H")}
                        \cup {g \in {"M"} : IsNumThen(d, mp, "M")}
                        \cup {g \in {"S"} : IsNumThen(d, sp, "S")}]
    ELSE IF Len(d) >= 2 /\ d[1].k = "P" /\ d[2].k = "num"
    THEN [matched |-> TRUE, days |-> d[2].n, hours |-> 0, minutes |-> 0, seconds |-> 0,
          groups |-> {"D"}]
    ELSE [matched |-> FALSE, days |-> 0, hours |-> 0, minutes |-> 0, seconds |-> 0,
          groups |-> {}]

iso_duration_to_seconds(duration) ==
    LET match == DurationMatch(duration)
    IN IF ~match.matched
       THEN 0
       ELSE match.days * 86400 + match.hours * 3600 + match.minutes * 60 + match.seconds

\* line 126: the text is printed as an invalid duration format
iso_duration_warns(duration) == ~DurationMatch(duration).matched

\* A timestamp text: fmt says whether it has the wire format
\* %Y-%m-%dT%H:%M:%S%z, t is the instant it names.
Stamp(t) == [fmt |-> "iso", t |-> t]
BadStamp == [fmt |-> "other", t |-> 0]

\* datetime.strptime(text, "%Y-%m-%dT%H:%M:%S%z"): the instant, or ValueError
strptime(text) ==
    IF text.fmt = "iso"
    THEN [ok |-> TRUE, t |-> text.t]
    ELSE [ok |-> FALSE, t |-> 0]

\* ------------------------------------------------------------ feed entries

\* entry.id.split(":")[-1]: the chunk after the last ":" ("" when none follows)
LastSegment(id) ==
    IF id = <<>> \/ id[Len(id)] = ":" THEN "" ELSE id[Len(id)]

\* ":" in entry.id
HasColon(id) == \E i \in 1..Len(id) : id[i] = ":"

Entry(hasId, id, link, published) ==
    [has_id |-> hasId, id |-> id, link |-> link, published |-> published]

\* the entries feeds are made of: three videos (the third with a publish
\* text that is not in the wire format), an entry without an id, and an
\* entry whose id has no ":"
EntryA == Entry(TRUE, <<"yt", ":", "video", ":", "a">>, "la", Stamp(3))
EntryB == Entry(TRUE, <<"yt", ":", "video", ":", "b">>, "lb", Stamp(2))
EntryC == Entry(TRUE, <<"yt", ":", "video", ":", "c">>, "lc", BadStamp)
\* a fourth video, published at the same instant as the first; it is
\* served in SpecMenu only
EntryD == Entry(TRUE, <<"yt", ":", "video", ":", "d">>, "ld", Stamp(3))
EntryNoId == Entry(FALSE, <<>>, "ln", Stamp(1))
EntryNoColon == Entry(TRUE, <<"a">>, "lx", Stamp(1))

Entries == {EntryA, EntryB, EntryC, EntryNoId, EntryNoColon}

VideoIds == {"a", "b", "c"}

\* the .entries of a feedparser document: at most MaxEntries entries
Docs == UNION {[1..n -> Entries] : n \in 0..MaxEntries}

\* a feed as fetch_videos sees it: a parsed document, or None
Feed(entries) == [nil |-> FALSE, entries |-> entries]
NilFeed == [nil |-> TRUE, entries |-> <<>>]

\* what videos().list may answer for an id: duration text and liveBroadcastContent
Item(duration, live) == [duration |-> duration, liveBroadcastContent |-> live]

ItemsOf(v) ==
    CASE v = "a" -> {Item(PT10M, "none"), Item(P1D, "none")}
      [] v = "b" -> {Item(PT1M30S, "none"), Item(PT2M, "none")}
      [] v = "c" -> {Item(PT10M, "upcoming"), Item(PT10M, "live"), Item(PT10M, "none")}
      [] v = "d" -> {Item(PT10M, "none")}
      [] OTHER -> {}

\* ------------------------------------------------------------------- state

VARIABLES
    served,             \* per channel, the document its feed URL serves
    cache_file,         \* CACHE_FILE: video id -> cache record
    config,             \* manager.config: min_video_length, days_filter, api_key
    channel_extractor,  \* manager.channel_extractor: None, or a client
    last,               \* the last fetch_videos pass: inputs, steps, result
    prev,               \* what the pass before it returned, and how it compares
    passes,             \* SpecConc: per manager process, its pass in progress
    channels,           \* manager.channels, the subscription list
    menu,               \* Interface.videos_menu: where it is, and its locals
    parsed,             \* SpecDuration: a duration text and what parsing it gave
    call,               \* the operation that ran last, and its outcome
    watched,            \* manager.watched, the watch history
    channel_name_cache, \* Extractor.channel_name_cache: channel id -> name
    loop,               \* main(): where its loop is, and what it has called
    instance,           \* instance.main(): its arguments and what it did
    config_file         \* CONFIG_FILE: absent, or the settings it holds

\* the variables of the menus other than videos_menu, and of the entry
\* points
appVars == <<call, watched, channel_name_cache, loop, instance, config_file>>

vars == <<served, cache_file, config, channel_extractor, last, prev, passes,
          channels, menu, parsed, appVars>>

\* manager.channel_extractor: None, or the client built with a developer
\* key (googleapiclient build(..., developerKey=api_key))
None == [client |-> FALSE, developerKey |-> ""]
Extractor(api_key) == [client |-> TRUE, developerKey |-> api_key]

\* __init__ (manager.py lines 37-42): a client only when a key is stored
StartExtractor(api_key) == IF api_key = "" THEN None ELSE Extractor(api_key)

\* no Interface operation has run
NoOperation == [op |-> "none"]

\* what the specifications of the manager start the menus' variables with
InitApp ==
    /\ call = NoOperation
    /\ watched = {}
    /\ channel_name_cache = <<>>
    /\ loop = [pc |-> "none"]
    /\ instance = [pc |-> "none"]
    /\ config_file = [exists |-> FALSE]

\* ------------------------------------------------------------- fetch_feed

FetchOutcomes == {"ok", "ClientError", "TimeoutError"}

\* fetch_feed: one session.get with timeout=10; the parsed document on
\* success, feedparser.parse('') (no entries) on ClientError and on
\* asyncio.TimeoutError. It returns after that one attempt.
fetch_feed(outcome, doc) ==
    IF outcome = "ok"
    THEN [feed |-> Feed(doc), attempts |-> 1]
    ELSE [feed |-> Feed(<<>>), attempts |-> 1]

\* ----------------------------------------------------------- fetch_videos

\* CacheValid with the lower bound made strict
CacheValid_Strict(total_seconds, live_broadcast_content, min_video_length) ==
    /\ min_video_length * 60 < total_seconds
    /\ total_seconds <= MAX_SECONDS
    /\ live_broadcast_content \notin {"live", "upcoming"}

\* CacheValid without the lower bound on the duration
CacheValid_NoFloor(total_seconds, live_broadcast_content, min_video_length) ==
    /\ total_seconds <= MAX_SECONDS
    /\ live_broadcast_content \notin {"live", "upcoming"}

\* The filter of lines 183-184 (cached record) and 250-254 (fresh item).
CacheValid(total_seconds, live_broadcast_content, min_video_length) ==
    /\ min_video_length * 60 <= total_seconds
    /\ total_seconds <= MAX_SECONDS
    /\ live_broadcast_content \notin {"live", "upcoming"}

\* the dict appended to cached_videos (lines 191-197 and 263-269)
Video(entry, video_id, published_date) ==
    [id |-> video_id, link |-> entry.link, published |-> published_date]

CacheRecord(total_seconds, live_broadcast_content, published) ==
    [duration_seconds |-> total_seconds,
     live_broadcast_content |-> live_broadcast_content,
     published |-> published]

\* video_cache[video_id] = record
Put(cache, video_id, record) ==
    [v \in DOMAIN cache \cup {video_id} |-> IF v = video_id THEN record ELSE cache[v]]

InSeq(x, s) == \E i \in 1..Len(s) : s[i] = x

\* CheckEntry asking for enrichment whenever it queues an id, also for a
\* cached record whose publish text does not parse
CheckEntry_Eager(acc, entry, video_cache, min_video_length) ==
    IF ~entry.has_id \/ ~HasColon(entry.id)
    THEN acc
    ELSE LET video_id == LastSegment(entry.id)
         IN IF video_id \in DOMAIN video_cache
            THEN LET cached_video == video_cache[video_id]
                     published_date == strptime(cached_video.published)
                 IN IF CacheValid(cached_video.duration_seconds,
                                  cached_video.live_broadcast_content,
                                  min_video_length)
                    THEN IF published_date.ok
                         THEN [acc EXCEPT !.cached_videos =
                                   Append(@, Video(entry, video_id, published_date.t))]
                         ELSE [acc EXCEPT !.video_ids_to_fetch = Append(@, video_id),
                                          !.need_api_request = TRUE]
                    ELSE acc
            ELSE [acc EXCEPT !.video_ids_to_fetch = Append(@, video_id),
                             !.need_api_request = TRUE]

\* CheckEntry queuing a cache hit for enrichment as well
CheckEntry_Requeue(acc, entry, video_cache, min_video_length) ==
    LET after == CheckEntry_Eager(acc, entry, video_cache, min_video_length)
    IN IF after.cached_videos # acc.cached_videos
       THEN [after EXCEPT !.video_ids_to_fetch = Append(@, LastSegment(entry.id)),
                          !.need_api_request = TRUE]
       ELSE after

\* One iteration of the cache-check loop (lines 168-203).
CheckEntry(acc, entry, video_cache, min_video_length) ==
    IF ~entry.has_id \/ ~HasColon(entry.id)
    THEN acc
    ELSE LET video_id == LastSegment(entry.id)
         IN IF video_id \in DOMAIN video_cache
            THEN LET cached_video == video_cache[video_id]
                     published_date == strptime(cached_video.published)
                 IN IF CacheValid(cached_video.duration_seconds,
                                  cached_video.live_broadcast_content,
                                  min_video_length)
                    THEN IF published_date.ok
                         THEN [acc EXCEPT !.cached_videos =
                                   Append(@, Video(entry, video_id, published_date.t))]
                         ELSE [acc EXCEPT !.video_ids_to_fetch = Append(@, video_id)]
                    ELSE acc
            ELSE [acc EXCEPT !.video_ids_to_fetch = Append(@, video_id),
                             !.need_api_request = TRUE]

RECURSIVE CheckLoop(_, _, _, _, _)
CheckLoop(entries, i, acc, video_cache, min_video_length) ==
    IF i > Len(entries)
    THEN acc
    ELSE CheckLoop(entries, i + 1,
                   CheckEntry(acc, entries[i], video_cache, min_video_length),
                   video_cache, min_video_length)

CacheCheck(entries, video_cache, min_video_length) ==
    CheckLoop(entries, 1,
              [cached_videos |-> <<>>, video_ids_to_fetch |-> <<>>,
               need_api_request |-> FALSE],
              video_cache, min_video_length)

\* CacheWrite without the write-once guard
CacheWrite_Always(video_cache, cache_data, video_id, record) ==
    Put(video_cache, video_id, record)

\* The write-once guard of lines 241-247: cache_data is the file as it is
\* now, the record goes into the pass's own video_cache.
CacheWrite(video_cache, cache_data, video_id, record) ==
    IF video_id \notin DOMAIN cache_data
    THEN Put(video_cache, video_id, record)
    ELSE video_cache

\* One iteration of the enrichment-result loop (lines 226-269). st carries
\* video_cache, cached_videos and raised (an exception left the loop).
\* disk is CACHE_FILE, which save_cache(cache_data) at line 248 rewrites
\* with what load_cache at line 241 has just read.
ProcessEntry(st, entry, video_ids_to_fetch, items, disk, min_video_length) ==
    IF st.raised
    THEN st
    ELSE IF ~entry.has_id
    THEN [st EXCEPT !.raised = TRUE]
    ELSE LET video_id == LastSegment(entry.id)
         IN IF ~InSeq(video_id, video_ids_to_fetch) \/ video_id \notin DOMAIN items
            THEN st
            ELSE LET item == items[video_id]
                     total_seconds == iso_duration_to_seconds(item.duration)
                     live_broadcast_content == item.liveBroadcastContent
                     written == [st EXCEPT !.video_cache =
                                    CacheWrite(@, disk, video_id,
                                               CacheRecord(total_seconds,
                                                           live_broadcast_content,
                                                           entry.published))]
                     published_date == strptime(entry.published)
                 IN IF ~CacheValid(total_seconds, live_broadcast_content, min_video_length)
                    THEN written
                    ELSE IF ~published_date.ok
                    THEN written
                    ELSE [written EXCEPT !.cached_videos =
                              Append(@, Video(entry, video_id, published_date.t))]

\* the iteration gets as far as lines 241-248: the entry's id was sent and
\* the response holds an item for it
ReachesItemSave(st, entry, video_ids_to_fetch, items) ==
    /\ ~st.raised
    /\ entry.has_id
    /\ InSeq(LastSegment(entry.id), video_ids_to_fetch)
    /\ LastSegment(entry.id) \in DOMAIN items

\* ItemSave writing the pass's own video_cache
ItemSave_VideoCache(video_cache, cache_data) == video_cache

\* save_cache(cache_data) at line 248: what CACHE_FILE holds afterwards.
\* cache_data is what load_cache read at line 241; the new record went
\* into video_cache.
ItemSave(video_cache, cache_data) == cache_data

\* Lines 241-248 of an iteration that reaches them: step is the state
\* ProcessEntry left, cache_data what load_cache read at line 241. disk
\* is CACHE_FILE, saves the calls of save_cache that returned.
ItemSaved(step, reached, cache_data) ==
    IF reached
    THEN [step EXCEPT !.disk = ItemSave(step.video_cache, cache_data),
                      !.saves = @ + 1]
    ELSE step

\* One iteration of the loop of lines 226-269 with its file accesses.
ItemStep(st, entry, video_ids_to_fetch, items, min_video_length) ==
    ItemSaved(ProcessEntry(st, entry, video_ids_to_fetch, items, st.disk,
                           min_video_length),
              ReachesItemSave(st, entry, video_ids_to_fetch, items),
              st.disk)

\* The loop of lines 226-269: the state one iteration leaves is the
\* state the next one starts with.
RECURSIVE ProcessLoop(_, _, _, _, _, _)
ProcessLoop(entries, i, st, video_ids_to_fetch, items, min_video_length) ==
    IF i > Len(entries)
    THEN st
    ELSE CHOOSE end \in {ProcessLoop(entries, i + 1, next, video_ids_to_fetch, items,
                                     min_video_length) :
                             next \in {ItemStep(st, entries[i], video_ids_to_fetch,
                                                items, min_video_length)}} : TRUE

\* Outcomes of videos().list(...).execute(): a response with items for
\* some of the requested ids, HttpError, or another exception (transport).
Responses(video_ids_to_fetch) ==
    LET asked == {video_ids_to_fetch[i] : i \in 1..Len(video_ids_to_fetch)}
        AllItems == UNION {ItemsOf(v) : v \in asked}
    IN {items \in UNION {[S -> AllItems] : S \in SUBSET asked} :
           \A v \in DOMAIN items : items[v] \in ItemsOf(v)}

NoItems == [v \in {} |-> Item(<<>>, "none")]

ApiOutcomes(video_ids_to_fetch) ==
    {[kind |-> "response", items |-> items] : items \in Responses(video_ids_to_fetch)}
    \cup {[kind |-> "HttpError", items |-> NoItems],
          [kind |-> "Exception", items |-> NoItems]}

NoCall == [kind |-> "none", items |-> NoItems]

Result(ret, out, disk, check, calls, raised) ==
    [ret |-> ret, out |-> out, disk |-> disk,
     hits |-> check.cached_videos, ids |-> check.video_ids_to_fetch,
     need |-> check.need_api_request, calls |-> calls, raised |-> raised,
     saves |-> 0, asked |-> <<>>]

NoCheck ==
    [cached_videos |-> <<>>, video_ids_to_fetch |-> <<>>, need_api_request |-> FALSE]

\* RequestIds sending the first queued id only
RequestIds_First(video_ids_to_fetch) == SubSeq(video_ids_to_fetch, 1, 1)

\* id=','.join(video_ids_to_fetch) at line 215: the ids the one
\* videos().list call of a pass carries
RequestIds(video_ids_to_fetch) == video_ids_to_fetch

\* Lines 271-285 after the loop over the items: st is the state the loop
\* left. An exception goes to the handler at line 283; otherwise
\* save_cache(video_cache) at line 272 and the return at line 275.
LoopEnded(st, check, request) ==
    IF st.raised
    THEN [Result("except", <<>>, st.disk, check, 1, TRUE)
              EXCEPT !.saves = st.saves, !.asked = request]
    ELSE [Result("done", st.cached_videos, st.video_cache, check, 1, FALSE)
              EXCEPT !.saves = st.saves + 1, !.asked = request]

\* Lines 213-223 and 277-279: the call was made and no item is processed.
CallEnded(ret, out, disk, check, request) ==
    [Result(ret, out, disk, check, 1, ret = "except") EXCEPT !.asked = request]

\* Lines 209-281: the enrichment call and what follows it. check is the
\* outcome of the cache-check loop, disk is CACHE_FILE (equal to the
\* video_cache loaded at line 150 when no other writer runs).
Enrich(entries, check, video_cache, disk, min_video_length, extractor, api) ==
    IF check.video_ids_to_fetch = <<>>
    THEN \* line 210: nothing to ask for, return at line 281
         Result("no_ids", check.cached_videos, disk, check, 0, FALSE)
    ELSE IF extractor = None
    THEN \* None.youtube: AttributeError, caught at line 283
         Result("except", <<>>, disk, check, 0, TRUE)
    ELSE IF api.kind = "HttpError"
    THEN CallEnded("HttpError", check.cached_videos, disk, check,
                   RequestIds(check.video_ids_to_fetch))
    ELSE IF api.kind = "Exception"
    THEN CallEnded("except", <<>>, disk, check, RequestIds(check.video_ids_to_fetch))
    ELSE IF DOMAIN api.items = {}
    THEN CallEnded("no_items", check.cached_videos, disk, check,
                   RequestIds(check.video_ids_to_fetch))
    ELSE LoopEnded(ProcessLoop(entries, 1,
                               [video_cache |-> video_cache,
                                cached_videos |-> check.cached_videos,
                                raised |-> FALSE, disk |-> disk, saves |-> 0],
                               check.video_ids_to_fetch, api.items,
                               min_video_length),
                   check, RequestIds(check.video_ids_to_fetch))

\* fetch_videos (lines 147-285) on a fetched feed, with the file content
\* disk, the minimum length, the enrichment client and the outcome api of
\* the enrichment call (used only when the call is made).
fetch_videos(feed, disk, min_video_length, extractor, api) ==
    IF feed.nil
    THEN \* None.entries: AttributeError, caught at line 283
         Result("except", <<>>, disk, NoCheck, 0, TRUE)
    ELSE IF Len(feed.entries) = 0
    THEN Result("no_entries", <<>>, disk, NoCheck, 0, FALSE)
    ELSE LET check == CacheCheck(feed.entries, disk, min_video_length)
         IN IF ~check.need_api_request
            THEN Result("all_cached", check.cached_videos, disk, check, 0, FALSE)
            ELSE Enrich(feed.entries, check, disk, disk, min_video_length,
                        extractor, api)

\* Which enrichment outcomes a pass can meet: one of ApiOutcomes when the
\* call is made, NoCall otherwise.
CallOutcomes(feed, disk, min_video_length, extractor) ==
    LET check == IF feed.nil THEN NoCheck
                 ELSE CacheCheck(feed.entries, disk, min_video_length)
    IN IF check.need_api_request /\ extractor # None
       THEN ApiOutcomes(RequestIds(check.video_ids_to_fetch))
       ELSE {NoCall}

\* ------------------------------------------------------------------- Spec
\* One manager, one pass after another (manager.py), with the settings
\* menus of interface.py changing the filters between passes.

Range(s) == {s[i] : i \in 1..Len(s)}

IdsOf(videos) == {videos[i].id : i \in 1..Len(videos)}

\* the entries the cache-check loop does not skip
ValidEntries(entries) == {e \in Range(entries) : e.has_id /\ HasColon(e.id)}

\* every entry id of the document is in the cache
AllCached(entries, cache) ==
    \A e \in ValidEntries(entries) : LastSegment(e.id) \in DOMAIN cache

EmptyCache == [v \in {} |-> CacheRecord(0, "none", BadStamp)]

NoPass ==
    [n |-> 0, feed |-> Feed(<<>>), fetch |-> "ok", attempts |-> 0,
     min_video_length |-> 0, before |-> EmptyCache, api |-> NoCall,
     io |-> "ok", io_failed |-> FALSE,
     res |-> Result("no_entries", <<>>, EmptyCache, NoCheck, 0, FALSE)]

\* a manager process that has not started its pass
Idle ==
    [pc |-> "idle", entries |-> <<>>, ids |-> <<>>, items |-> NoItems, idx |-> 0,
     video_cache |-> EmptyCache, cache_data |-> EmptyCache,
     cached_videos |-> <<>>, written |-> {}, saved |-> FALSE]

Procs == {1, 2}

\* iso_duration_to_seconds not called
NotParsed ==
    [duration |-> <<>>, kind |-> "none", d |-> 0, h |-> 0, m |-> 0, s |-> 0,
     called |-> FALSE, seconds |-> 0, warned |-> FALSE]

\* videos_menu not entered
Home ==
    [pc |-> "home", refresh |-> FALSE, jobs |-> <<>>, order |-> <<>>,
     parsed_feeds |-> <<>>, i |-> 0,
     videos |-> <<>>, outs |-> <<>>, cutoff_date |-> 0, message |-> ""]

NoPrev == [same |-> FALSE, out |-> <<>>, calls |-> 0, all_cached |-> FALSE]

Init ==
    /\ served \in [1..1 -> Docs]
    /\ cache_file = EmptyCache
    /\ config \in [min_video_length : 1..MaxMinLength,
                   days_filter : {1, MaxDays},
                   api_key : {"", "KEY"}]
    /\ channel_extractor = StartExtractor(config.api_key)
    /\ last = NoPass
    /\ prev = NoPrev
    /\ passes = [p \in Procs |-> Idle]
    /\ channels = <<>>
    /\ menu = Home
    /\ parsed = NotParsed
    /\ InitApp

\* What load_cache (lines 60-64) and save_cache (lines 66-68) do in one
\* pass: both work, or load_cache raises (unreadable file, invalid JSON),
\* or save_cache raises (file not writable).
IoHealthy == {"ok"}
IoOutcomes == {"ok", "load_fails", "save_fails"}

\* fetch_videos with the file operations able to fail. load_cache at
\* line 150 is the first statement of the try block: when it raises,
\* nothing else runs and the handler at lines 283-285 returns []. A pass
\* reaches save_cache (lines 248 and 272) when the response holds items;
\* the first call it reaches raises, the same handler returns [] and the
\* file keeps its content.
fetch_videos_io(feed, disk, min_video_length, extractor, api, io) ==
    LET res == fetch_videos(feed, disk, min_video_length, extractor, api)
    IN IF io = "load_fails"
       THEN [failed |-> TRUE, res |-> Result("except", <<>>, disk, NoCheck, 0, TRUE)]
       ELSE IF io = "ok"
       THEN [failed |-> FALSE, res |-> res]
       ELSE IF res.saves > 0
       THEN [failed |-> TRUE,
             res |-> [res EXCEPT !.ret = "except", !.out = <<>>, !.disk = disk,
                                 !.raised = TRUE, !.saves = 0]]
       ELSE [failed |-> FALSE, res |-> res]

\* fetch_videos(channel_id): load_cache, fetch_feed, then the pass, with
\* the file operations behaving as one of ios.
FetchVideosUnder(ios) ==
    \E outcome \in FetchOutcomes, io \in ios :
        LET fetched == fetch_feed(outcome, served[1])
            feed == fetched.feed
        IN /\ \E api \in IF io = "load_fails" THEN {NoCall}
                         ELSE CallOutcomes(feed, cache_file, config.min_video_length,
                                           channel_extractor) :
                \E pass \in {fetch_videos_io(feed, cache_file, config.min_video_length,
                                             channel_extractor, api, io)} :
                LET res == pass.res
                IN /\ cache_file' = res.disk
                   /\ last' = [n |-> 1, feed |-> feed, fetch |-> outcome,
                               attempts |-> IF io = "load_fails" THEN 0
                                            ELSE fetched.attempts,
                               min_video_length |-> config.min_video_length,
                               before |-> cache_file, api |-> api,
                               io |-> io, io_failed |-> pass.failed, res |-> res]
                   /\ prev' = IF /\ last.n = 1
                                 /\ last.feed = feed
                                 /\ last.min_video_length = config.min_video_length
                              THEN [same |-> TRUE, out |-> last.res.out,
                                    calls |-> last.res.calls,
                                    all_cached |-> AllCached(feed.entries, last.before)]
                              ELSE NoPrev
                   /\ UNCHANGED <<served, config, channel_extractor, passes, channels, menu, parsed, appVars>>

\* a pass with the cache file readable and writable
FetchVideos == FetchVideosUnder(IoHealthy)

\* Interface.length_filter (lines 411-422): a positive number of minutes
\* is stored and saved; anything else leaves the setting alone.
LengthFilter ==
    \E new_length \in 0..MaxMinLength :
        /\ new_length > 0
        /\ config' = [config EXCEPT !.min_video_length = new_length]
        /\ UNCHANGED <<served, cache_file, channel_extractor, last, prev, passes, channels, menu, parsed, appVars>>

\* Interface.days_filter (lines 398-409).
DaysFilter ==
    \E days \in {0, 1, MaxDays} :
        /\ days > 0
        /\ config' = [config EXCEPT !.days_filter = days]
        /\ UNCHANGED <<served, cache_file, channel_extractor, last, prev, passes, channels, menu, parsed, appVars>>

Next == FetchVideos \/ LengthFilter \/ DaysFilter

Spec == Init /\ [][Next]_vars

\* ----------------------------------------------------------------- SpecIO
\* The passes of Spec with a cache file that can fail to be read or
\* written (load_cache and save_cache raise: manager.py 60-68).

\* the documents served in SpecIO and by the two channels of SpecConc
ConcDocs == {<<EntryA>>, <<EntryB>>, <<EntryA, EntryB>>, <<EntryC, EntryB>>}

InitIO ==
    /\ served \in [1..1 -> ConcDocs]
    /\ cache_file = EmptyCache
    /\ config \in [min_video_length : 1..MaxMinLength, days_filter : {1},
                   api_key : {"", "KEY"}]
    /\ channel_extractor = StartExtractor(config.api_key)
    /\ last = NoPass
    /\ prev = NoPrev
    /\ passes = [p \in Procs |-> Idle]
    /\ channels = <<>>
    /\ menu = Home
    /\ parsed = NotParsed
    /\ InitApp

FetchVideosIO == FetchVideosUnder(IoOutcomes)

NextIO == FetchVideosIO \/ LengthFilter

SpecIO == InitIO /\ [][NextIO]_vars

\* ------------------------------------------------------------ SpecPartial
\* The passes of Spec over documents one entry longer, so that a pass can
\* send two ids to the enrichment call next to a third entry.

PartialEntries == {EntryA, EntryB, EntryC, EntryNoId}

PartialDocs == [1..(MaxEntries + 1) -> PartialEntries]

InitPartial ==
    /\ served \in [1..1 -> PartialDocs]
    /\ cache_file = EmptyCache
    /\ config \in [min_video_length : 1..MaxMinLength, days_filter : {1},
                   api_key : {"KEY"}]
    /\ channel_extractor = StartExtractor(config.api_key)
    /\ last = NoPass
    /\ prev = NoPrev
    /\ passes = [p \in Procs |-> Idle]
    /\ channels = <<>>
    /\ menu = Home
    /\ parsed = NotParsed
    /\ InitApp

NextPartial == FetchVideos \/ LengthFilter

SpecPartial == InitPartial /\ [][NextPartial]_vars

\* --------------------------------------------------------------- SpecConc
\* Two manager processes (two running instances of the application) share
\* CACHE_FILE. load_cache and save_cache take no lock, so the passes
\* interleave at every file access: line 150, lines 241 and 248 of each
\* loop iteration, line 272.

InitConc ==
    /\ served \in [Procs -> ConcDocs]
    /\ cache_file = EmptyCache
    /\ config \in [min_video_length : 1..MaxMinLength, days_filter : {1},
                   api_key : {"KEY"}]
    /\ channel_extractor = StartExtractor(config.api_key)
    /\ last = NoPass
    /\ prev = NoPrev
    /\ passes = [p \in Procs |-> Idle]
    /\ channels = <<>>
    /\ menu = Home
    /\ parsed = NotParsed
    /\ InitApp

\* Lines 150-223 of process p: load_cache, the feed, the cache-check loop
\* and the enrichment call. The pass ends here unless there are items to
\* process.
PassStart(p) ==
    /\ passes[p].pc = "idle"
    /\ LET entries == served[p]
           check == CacheCheck(entries, cache_file, config.min_video_length)
       IN \E api \in CallOutcomes(Feed(entries), cache_file, config.min_video_length,
                                  channel_extractor) :
              passes' = [passes EXCEPT ![p] =
                  IF check.need_api_request /\ api.kind = "response"
                     /\ DOMAIN api.items # {}
                  THEN [Idle EXCEPT !.pc = "loop", !.entries = entries,
                                    !.ids = check.video_ids_to_fetch,
                                    !.items = api.items, !.idx = 1,
                                    !.video_cache = cache_file,
                                    !.cached_videos = check.cached_videos]
                  ELSE [Idle EXCEPT !.pc = "done", !.entries = entries,
                                    !.ids = check.video_ids_to_fetch,
                                    !.video_cache = cache_file,
                                    !.cached_videos =
                                        fetch_videos(Feed(entries), cache_file,
                                                     config.min_video_length,
                                                     channel_extractor, api).out]]
    /\ UNCHANGED <<served, cache_file, config, channel_extractor, last, prev,
                    channels, menu, parsed, appVars>>

\* the entry of this iteration has an item in the response (lines 227-235)
HasItem(ps) ==
    /\ ps.entries[ps.idx].has_id
    /\ InSeq(LastSegment(ps.entries[ps.idx].id), ps.ids)
    /\ LastSegment(ps.entries[ps.idx].id) \in DOMAIN ps.items

\* One iteration of the loop of lines 226-269 up to its load_cache (line
\* 241): the record goes into video_cache under the write-once guard, the
\* filter decides on the output. An iteration without an item ends at its
\* continue, an entry without an id ends the pass at line 283.
PassItem(p) ==
    LET ps == passes[p]
        st == ProcessEntry([video_cache |-> ps.video_cache,
                            cached_videos |-> ps.cached_videos,
                            raised |-> FALSE],
                           ps.entries[ps.idx], ps.ids, ps.items, cache_file,
                           config.min_video_length)
    IN /\ ps.pc = "loop"
       /\ ps.idx <= Len(ps.entries)
       /\ passes' = [passes EXCEPT ![p] =
              IF st.raised
              THEN [ps EXCEPT !.pc = "done", !.cached_videos = <<>>]
              ELSE IF HasItem(ps)
              THEN [ps EXCEPT !.pc = "item_save",
                              !.cache_data = cache_file,
                              !.video_cache = st.video_cache,
                              !.cached_videos = st.cached_videos,
                              !.written = IF st.video_cache # ps.video_cache
                                          THEN @ \cup {LastSegment(ps.entries[ps.idx].id)}
                                          ELSE @]
              ELSE [ps EXCEPT !.idx = @ + 1]]
       /\ UNCHANGED <<served, cache_file, config, channel_extractor, last, prev,
                    channels, menu, parsed, appVars>>

\* save_cache(cache_data) at line 248: the file gets what line 241 read.
PassItemSave(p) ==
    /\ passes[p].pc = "item_save"
    /\ cache_file' = ItemSave(passes[p].video_cache, passes[p].cache_data)
    /\ passes' = [passes EXCEPT ![p].pc = "loop", ![p].idx = @ + 1]
    /\ UNCHANGED <<served, config, channel_extractor, last, prev, channels, menu, parsed, appVars>>

\* save_cache(video_cache) at line 272, and the return at line 275.
PassFinalSave(p) ==
    /\ passes[p].pc = "loop"
    /\ passes[p].idx > Len(passes[p].entries)
    /\ cache_file' = passes[p].video_cache
    /\ passes' = [passes EXCEPT ![p].pc = "done", ![p].saved = TRUE]
    /\ UNCHANGED <<served, config, channel_extractor, last, prev, channels, menu, parsed, appVars>>

NextConc ==
    \E p \in Procs :
        PassStart(p) \/ PassItem(p) \/ PassItemSave(p) \/ PassFinalSave(p)

SpecConc == InitConc /\ [][NextConc]_vars

\* --------------------------------------------------------------- SpecMenu
\* Interface.videos_menu (interface.py lines 208-301): the feeds of all
\* subscribed channels are fetched by manager.parse_feeds, then
\* fetch_videos runs on each channel's parsed feed in subscription order,
\* then the merged list is sorted, cut off and shown. parse_feeds is the
\* concurrent fetch its callers and tests/test_manager.py describe: one
\* parse_feed per channel on a worker pool, the results in channel order.

\* most channels in the subscription list
MaxChannels == 2

\* size of the pool parse_feeds fetches on
MAX_WORKERS == 8

\* attempts parse_feed makes on one feed when the fetch times out
MAX_ATTEMPTS == 2

SourceIds == 1..MaxChannels

\* the feed documents the channels serve
MenuDocs == {<<>>, <<EntryD>>, <<EntryB, EntryA>>}

\* manager.channels: channel ids, none twice. The ids are names, and what
\* each serves is arbitrary, so the lists are taken in one order.
ChannelLists == {[i \in 1..n |-> i] : n \in 0..MaxChannels}

\* instants are counted in hours
HOURS_PER_DAY == 24

\* timedelta(days=days)
timedelta(days) == days * HOURS_PER_DAY

\* the instants datetime.now() may return: one day after the older
\* video was published, and an hour later
Nows == {26, 27}

QueuedJob == [st |-> "queued", attempts |-> 0, calls |-> 0, result |-> NilFeed]

\* parse_feed after one requests.get: the parsed document on success, one
\* more attempt after a timeout while attempts remain, None otherwise
parse_feed_step(job, outcome, doc) ==
    LET n == job.attempts + 1
    IN IF outcome = "ok"
       THEN [job EXCEPT !.st = "done", !.attempts = n, !.result = Feed(doc)]
       ELSE IF outcome = "TimeoutError" /\ n < MAX_ATTEMPTS
       THEN [job EXCEPT !.attempts = n]
       ELSE [job EXCEPT !.st = "done", !.attempts = n, !.result = NilFeed]

\* the list parse_feeds returns, taken in completion order
Collect_AsCompleted(jobs, order) ==
    [k \in 1..Len(order) |-> jobs[order[k]].result]

\* the list parse_feeds returns: the i-th element is the i-th channel's feed
Collect(jobs, order) ==
    [i \in 1..Len(jobs) |-> jobs[i].result]

AllDone(jobs) == \A i \in 1..Len(jobs) : jobs[i].st = "done"

\* aggregation started while parse_feeds is still running, on whatever
\* the fetch of the channel has produced so far
AggregateInput_Early(m) ==
    LET on == m.pc \in {"fetching", "aggregating"} /\ m.i + 1 <= Len(m.jobs)
    IN [enabled |-> on,
        feed |-> IF on THEN m.jobs[m.i + 1].result ELSE NilFeed]

\* Lines 219-220: the loop over the channels runs once parse_feeds has
\* returned, and takes parsed_feeds[i] for the i-th channel. m.i counts
\* the channels already aggregated.
AggregateInput(m) ==
    LET on == m.pc = "aggregating" /\ m.i + 1 <= Len(m.parsed_feeds)
    IN [enabled |-> on,
        feed |-> IF on THEN m.parsed_feeds[m.i + 1] ELSE NilFeed]

\* videos = <one channel's list>
Extend_Assign(videos, out) == out

\* videos.extend(...) at line 221
Extend(videos, out) == videos \o out

\* sorted(videos, key=published, reverse=True): stable, so equal instants
\* keep their order
\* an insertion that puts a record before the records of the same instant
RECURSIVE InsertDesc_TiesFirst(_, _)
InsertDesc_TiesFirst(sorted, video) ==
    IF sorted = <<>>
    THEN <<video>>
    ELSE IF Head(sorted).published > video.published
    THEN <<Head(sorted)>> \o InsertDesc_TiesFirst(Tail(sorted), video)
    ELSE <<video>> \o sorted

RECURSIVE InsertDesc(_, _)
InsertDesc(sorted, video) ==
    IF sorted = <<>>
    THEN <<video>>
    ELSE IF Head(sorted).published >= video.published
    THEN <<Head(sorted)>> \o InsertDesc(Tail(sorted), video)
    ELSE <<video>> \o sorted

RECURSIVE SortDesc(_)
SortDesc(videos) ==
    IF videos = <<>>
    THEN <<>>
    ELSE InsertDesc(SortDesc(SubSeq(videos, 1, Len(videos) - 1)), videos[Len(videos)])

\* line 228: the videos published after cutoff_date
AfterCutoff(videos, cutoff_date) ==
    SelectSeq(videos, LAMBDA video : video.published > cutoff_date)

InitMenu ==
    /\ served \in [SourceIds -> MenuDocs]
    /\ cache_file = EmptyCache
    /\ config \in [min_video_length : {1},
                   days_filter : {1, MaxDays},
                   api_key : {"", "KEY"}]
    /\ channel_extractor = StartExtractor(config.api_key)
    /\ last = NoPass
    /\ prev = NoPrev
    /\ passes = [p \in Procs |-> Idle]
    /\ channels \in ChannelLists
    /\ menu = Home
    /\ parsed = NotParsed
    /\ InitApp

\* the start of a refresh cycle: parse_feeds is called with the channels
StartFetching(m) ==
    [m EXCEPT !.pc = "fetching",
              !.jobs = [i \in 1..Len(channels) |-> QueuedJob],
              !.order = <<>>, !.parsed_feeds = <<>>, !.i = 0, !.outs = <<>>,
              !.message = ""]

\* a menu that refreshes whatever the subscription list holds
HasChannels_Always(chans) == TRUE

\* line 214: if self.manager.channels
HasChannels(chans) == chans # <<>>

\* Lines 214-217 and 299-301: with no channel a message, otherwise the
\* first refresh cycle starts.
VideosMenu ==
    /\ menu.pc = "home"
    /\ menu' = IF HasChannels(channels)
               THEN StartFetching(Home)
               ELSE [Home EXCEPT !.message = "add_channel_first"]
    /\ UNCHANGED <<served, cache_file, config, channel_extractor, last, prev,
                    passes, channels, parsed, appVars>>

\* the fetches in flight
Running(jobs) == {j \in 1..Len(jobs) : jobs[j].st = "running"}

\* a pool that starts every task at once
PoolHasRoom_Unbounded(jobs) == TRUE

\* a worker of the pool is free
PoolHasRoom(jobs) == Cardinality(Running(jobs)) < MAX_WORKERS

\* a pool worker takes the i-th channel: parse_feed is called on it
JobStart(i) ==
    /\ menu.pc = "fetching"
    /\ menu.jobs[i].st = "queued"
    /\ PoolHasRoom(menu.jobs)
    /\ menu' = [menu EXCEPT !.jobs[i].st = "running", !.jobs[i].calls = @ + 1]
    /\ UNCHANGED <<served, cache_file, config, channel_extractor, last, prev,
                    passes, channels, parsed, appVars>>

\* one requests.get of parse_feed for the i-th channel
JobAttempt(i) ==
    /\ menu.pc = "fetching"
    /\ menu.jobs[i].st = "running"
    /\ \E outcome \in FetchOutcomes :
          LET job == parse_feed_step(menu.jobs[i], outcome, served[channels[i]])
          IN menu' = [menu EXCEPT !.jobs[i] = job,
                                  !.order = IF job.st = "done" THEN Append(@, i) ELSE @]
    /\ UNCHANGED <<served, cache_file, config, channel_extractor, last, prev,
                    passes, channels, parsed, appVars>>

\* parse_feeds returns once every fetch has completed (lines 217 and
\* 267-268: the list is bound and the old videos are dropped). Its jobs
\* end with the call; order stays as the record of how they completed.
ParseFeedsReturn ==
    /\ menu.pc = "fetching"
    /\ AllDone(menu.jobs)
    /\ menu' = [menu EXCEPT !.pc = "aggregating",
                            !.parsed_feeds = Collect(menu.jobs, menu.order),
                            !.jobs = <<>>,
                            !.videos = <<>>]
    /\ UNCHANGED <<served, cache_file, config, channel_extractor, last, prev,
                    passes, channels, parsed, appVars>>

\* Lines 219-221 (270-272 on refresh): fetch_videos on the next channel's
\* parsed feed, its list appended to videos. outs keeps what each channel
\* contributed.
Aggregate ==
    LET input == AggregateInput(menu)
    IN /\ input.enabled
       /\ \E api \in CallOutcomes(input.feed, cache_file, config.min_video_length,
                                  channel_extractor) :
             \E res \in {fetch_videos(input.feed, cache_file, config.min_video_length,
                                      channel_extractor, api)} :
                /\ cache_file' = res.disk
                /\ menu' = [menu EXCEPT !.i = @ + 1,
                                        !.videos = Extend(@, res.out),
                                        !.outs = Append(@, res.out),
                                        !.pc = IF menu.i + 1 = Len(channels)
                                               THEN "merged" ELSE @]
       /\ UNCHANGED <<served, config, channel_extractor, last, prev, passes, channels, parsed, appVars>>

\* a menu that goes on to the cutoff whatever was merged
ShortCircuit_Never(videos) == FALSE

\* line 222 (273): if not videos
ShortCircuit(videos) == videos = <<>>

\* Lines 222-233 (273-284 on refresh): nothing merged, or nothing after
\* the cutoff, shows a message and leaves the menu; otherwise the sorted
\* list is shown. The cutoff reads videos[0] of the sorted list (line
\* 227), an IndexError on an empty list, which nothing in the menu catches.
Finish ==
    /\ menu.pc = "merged"
    /\ \E now \in Nows :
          LET sorted == SortDesc(menu.videos)
              cutoff_date == now - timedelta(config.days_filter)
              kept == AfterCutoff(sorted, cutoff_date)
          IN menu' = IF ShortCircuit(menu.videos)
                     THEN [menu EXCEPT !.pc = "home", !.message = "check_subscriptions"]
                     ELSE IF sorted = <<>>
                     THEN [menu EXCEPT !.pc = "crashed", !.message = "IndexError"]
                     ELSE IF kept = <<>>
                     THEN [menu EXCEPT !.pc = "home", !.videos = kept,
                                       !.cutoff_date = cutoff_date,
                                       !.message = "check_filters"]
                     ELSE [menu EXCEPT !.pc = "list", !.videos = kept,
                                       !.cutoff_date = cutoff_date,
                                       !.message = "fetched"]
    /\ UNCHANGED <<served, cache_file, config, channel_extractor, last, prev,
                    passes, channels, parsed, appVars>>

\* Lines 264-267: choice 0 starts the next refresh cycle.
Refresh ==
    /\ menu.pc = "list"
    /\ menu' = StartFetching([menu EXCEPT !.refresh = TRUE])
    /\ UNCHANGED <<served, cache_file, config, channel_extractor, last, prev,
                    passes, channels, parsed, appVars>>

\* Lines 262-263: an empty choice leaves the menu.
Back ==
    /\ menu.pc = "list"
    /\ menu' = [menu EXCEPT !.pc = "home", !.message = ""]
    /\ UNCHANGED <<served, cache_file, config, channel_extractor, last, prev,
                    passes, channels, parsed, appVars>>

NextMenu ==
    \/ VideosMenu
    \/ \E i \in 1..Len(channels) : JobStart(i) \/ JobAttempt(i)
    \/ ParseFeedsReturn
    \/ Aggregate
    \/ Finish
    \/ Refresh
    \/ Back

SpecMenu == InitMenu /\ [][NextMenu]_vars

\* --------------------------------------------------------------- SpecPool
\* One parse_feeds call over more channels than the pool has workers. The
\* order of completion is not recorded here, and a request succeeds or
\* fails for good (ClientError), so that a job has four states.

PoolChannels == MAX_WORKERS + 1

PoolOutcomes == {"ok", "ClientError"}

InitPool ==
    /\ served = [c \in 1..PoolChannels |-> <<EntryA>>]
    /\ cache_file = EmptyCache
    /\ config = [min_video_length |-> 1, days_filter |-> 1, api_key |-> "KEY"]
    /\ channel_extractor = StartExtractor(config.api_key)
    /\ last = NoPass
    /\ prev = NoPrev
    /\ passes = [p \in Procs |-> Idle]
    /\ channels = [i \in 1..PoolChannels |-> i]
    /\ menu = Home
    /\ parsed = NotParsed
    /\ InitApp

\* one requests.get of parse_feed for the i-th channel
PoolAttempt(i) ==
    /\ menu.pc = "fetching"
    /\ menu.jobs[i].st = "running"
    /\ \E outcome \in PoolOutcomes :
          menu' = [menu EXCEPT !.jobs[i] =
                       parse_feed_step(menu.jobs[i], outcome, served[channels[i]])]
    /\ UNCHANGED <<served, cache_file, config, channel_extractor, last, prev,
                    passes, channels, parsed, appVars>>

NextPool ==
    \/ VideosMenu
    \/ \E i \in 1..Len(channels) : JobStart(i)
    \/ \E i \in 1..Len(channels) : PoolAttempt(i)
    \/ ParseFeedsReturn

\* the pool's workers and the requests (each with a timeout) keep going
SpecPool == InitPool /\ [][NextPool]_vars /\ WF_vars(NextPool)

\* ----------------------------------------------------------- SpecDuration
\* iso_duration_to_seconds (manager.py lines 120-131) applied to one text.

\* largest count of a component in the texts enumerated
MaxCount == 2
\* longest of the arbitrary texts enumerated, in tokens
MaxTokens == 2

\* one component of an ISO 8601 duration: a count and its designator
Component(n, letter) == IF n = 0 THEN <<>> ELSE <<Num(n), Tok(letter)>>

\* the ISO 8601 text with the given counts, 0 for a component left out:
\* P[nD][T[nH][nM][nS]]
IsoText(d, h, m, s) ==
    <<Tok("P")>> \o Component(d, "D")
        \o (IF h + m + s > 0
            THEN <<Tok("T")>> \o Component(h, "H") \o Component(m, "M")
                     \o Component(s, "S")
            ELSE <<>>)

\* what an arbitrary text is made of: the designators, a digit run, and
\* anything else
Alphabet ==
    {Tok("P"), Tok("T"), Tok("D"), Tok("H"), Tok("M"), Tok("S"), Tok("X"), Num(1)}

ArbitraryTexts == UNION {[1..n -> Alphabet] : n \in 0..MaxTokens}

InitDuration ==
    /\ served = [c \in 1..1 |-> <<>>]
    /\ cache_file = EmptyCache
    /\ config = [min_video_length |-> 1, days_filter |-> 1, api_key |-> "KEY"]
    /\ channel_extractor = StartExtractor(config.api_key)
    /\ last = NoPass
    /\ prev = NoPrev
    /\ passes = [p \in Procs |-> Idle]
    /\ channels = <<>>
    /\ menu = Home
    /\ InitApp
    /\ \/ \E d, h, m, s \in 0..MaxCount :
             parsed = [NotParsed EXCEPT !.duration = IsoText(d, h, m, s), !.kind = "iso",
                                        !.d = d, !.h = h, !.m = m, !.s = s]
       \/ \E text \in ArbitraryTexts :
             parsed = [NotParsed EXCEPT !.duration = text, !.kind = "text"]

\* the call: the seconds returned, and whether the text was reported
IsoDurationToSeconds ==
    /\ ~parsed.called
    /\ parsed' = [parsed EXCEPT !.called = TRUE,
                                !.seconds = iso_duration_to_seconds(parsed.duration),
                                !.warned = iso_duration_warns(parsed.duration)]
    /\ UNCHANGED <<served, cache_file, config, channel_extractor, last, prev, passes,
                   channels, menu, appVars>>

NextDuration == IsoDurationToSeconds

SpecDuration == InitDuration /\ [][NextDuration]_vars

\* ----------------------------------------------------------- SpecChannels
\* The subscription menus of interface.py: add_channel (lines 303-325)
\* and remove_channels (lines 364-396) on manager.channels.

\* the channel ids get_channel_id can resolve an answer to
ChannelIds == {"UCa", "UCb", "UCc"}

\* the longest subscription list the model lets add_channel build
MaxSubscriptions == 3

NoDuplicates(chans) ==
    \A i, j \in 1..Len(chans) : chans[i] = chans[j] => i = j

\* what the user types at the prompt of add_channel: nothing, a link or
\* handle that get_channel_id resolves to an id, or one it raises
\* ValueError on (extractor.py 49-77)
AddAnswers ==
    {[kind |-> "blank", id |-> ""], [kind |-> "invalid", id |-> ""]}
    \cup {[kind |-> "link", id |-> c] : c \in ChannelIds}

\* a menu that appends whatever id the answer resolves to
Subscribed_Never(channel_id, chans) == FALSE

\* line 311: channel_id in self.manager.channels
Subscribed(channel_id, chans) == InSeq(channel_id, chans)

\* add_channel (lines 303-325) on the list chans. names_ok: the call of
\* get_channel_names at line 314 returns (it raises ValueError on an
\* HttpError, after the list was appended to and saved).
add_channel(chans, api_key, answer, names_ok) ==
    IF api_key = ""
    THEN [channels |-> chans, message |-> "set_api_key_first"]
    ELSE IF answer.kind = "blank"
    THEN [channels |-> chans, message |-> ""]
    ELSE IF answer.kind = "invalid"
    THEN [channels |-> chans, message |-> "error"]
    ELSE IF Subscribed(answer.id, chans)
    THEN [channels |-> chans, message |-> "already_exists"]
    ELSE [channels |-> Append(chans, answer.id),
          message |-> IF names_ok THEN "added" ELSE "error"]

\* what the user types at the prompt of remove_channels: nothing, text
\* that is not a number, or a number
RemoveChoices ==
    {[kind |-> "blank", n |-> 0], [kind |-> "text", n |-> 0]}
    \cup {[kind |-> "digits", n |-> n] : n \in 0..(MaxSubscriptions + 1)}

\* list.pop(index - 1)
Pop(chans, index) ==
    [k \in 1..(Len(chans) - 1) |-> IF k < index THEN chans[k] ELSE chans[k + 1]]

\* remove_channels (lines 364-396) on the list chans
remove_channels(chans, choice) ==
    IF chans = <<>>
    THEN [channels |-> chans, message |-> "no_channels"]
    ELSE IF choice.kind = "digits" /\ 1 <= choice.n /\ choice.n <= Len(chans)
    THEN [channels |-> Pop(chans, choice.n), message |-> "removed"]
    ELSE IF choice.kind # "blank"
    THEN [channels |-> chans, message |-> "invalid_input"]
    ELSE [channels |-> chans, message |-> ""]

InitChannels ==
    /\ served = [c \in 1..1 |-> <<>>]
    /\ cache_file = EmptyCache
    /\ config \in [min_video_length : {1}, days_filter : {1}, api_key : {"", "KEY"}]
    /\ channel_extractor = StartExtractor(config.api_key)
    /\ last = NoPass
    /\ prev = NoPrev
    /\ passes = [p \in Procs |-> Idle]
    /\ channels \in {chans \in UNION {[1..n -> ChannelIds] : n \in 0..MaxSubscriptions} :
                        NoDuplicates(chans)}
    /\ menu = Home
    /\ parsed = NotParsed
    /\ InitApp

AddChannel ==
    /\ Len(channels) < MaxSubscriptions + 1
    /\ \E answer \in AddAnswers, names_ok \in BOOLEAN :
          LET done == add_channel(channels, config.api_key, answer, names_ok)
          IN /\ channels' = done.channels
             /\ call' = [op |-> "add_channel", answer |-> answer,
                         before |-> channels, message |-> done.message]
    /\ UNCHANGED <<served, cache_file, config, channel_extractor, last, prev,
                   passes, menu, parsed, watched, channel_name_cache, loop,
                   instance, config_file>>

RemoveChannels ==
    /\ \E choice \in RemoveChoices :
          LET done == remove_channels(channels, choice)
          IN /\ channels' = done.channels
             /\ call' = [op |-> "remove_channels", answer |-> choice,
                         before |-> channels, message |-> done.message]
    /\ UNCHANGED <<served, cache_file, config, channel_extractor, last, prev,
                   passes, menu, parsed, watched, channel_name_cache, loop,
                   instance, config_file>>

NextChannels == AddChannel \/ RemoveChannels

SpecChannels == InitChannels /\ [][NextChannels]_vars

\* ------------------------------------------------------------ SpecWatched
\* videos_menu with a watch history: the refresh cycle of SpecMenu on one
\* channel, the table of lines 243-259, and the operations that touch
\* manager.watched (lines 286-298, 481-493, 498-527).

\* the time datetime.now() gives when a video is selected
WatchTimes == {1}

\* video_details (lines 288-294), as far as the menus read it back
WatchedRecord(id, watched_at) == [id |-> id, watched_at |-> watched_at]

\* the history files the manager may have loaded
InitialWatched == SUBSET {WatchedRecord("a", 0), WatchedRecord("c", 0)}

\* a table that leaves out the videos in the history
DrawTable_HideWatched(videos, history) ==
    LET unseen == SelectSeq(videos, LAMBDA video : \A w \in history : w.id # video.id)
    IN [idx \in 1..Len(unseen) |-> [id |-> unseen[idx].id, color |-> "white"]]

\* Lines 243-259: one row per video of the list, dim when the history
\* holds a record with the video's id.
DrawTable(videos, history) ==
    [idx \in 1..Len(videos) |->
        [id |-> videos[idx].id,
         color |-> IF \E w \in history : w.id = videos[idx].id
                   THEN "dim" ELSE "white"]]

InitWatched ==
    /\ served = [c \in SourceIds |-> IF c = 1 THEN <<EntryB, EntryA>> ELSE <<>>]
    /\ cache_file = EmptyCache
    /\ config \in [min_video_length : {1}, days_filter : {1, MaxDays}, api_key : {"KEY"}]
    /\ channel_extractor = StartExtractor(config.api_key)
    /\ last = NoPass
    /\ prev = NoPrev
    /\ passes = [p \in Procs |-> Idle]
    /\ channels = <<1>>
    /\ menu = Home
    /\ parsed = NotParsed
    /\ call = NoOperation
    /\ watched \in InitialWatched
    /\ channel_name_cache = <<>>
    /\ loop = [pc |-> "none"]
    /\ instance = [pc |-> "none"]
    /\ config_file = [exists |-> FALSE]

\* Lines 286-298: a valid index at the prompt of the video list adds the
\* video's details to the history and opens the video; the list is drawn
\* again.
Watch ==
    /\ menu.pc = "list"
    /\ \E choice \in 1..Len(menu.videos), now \in WatchTimes :
          /\ watched' = watched \cup {WatchedRecord(menu.videos[choice].id, now)}
          /\ call' = [op |-> "watch", id |-> menu.videos[choice].id]
    /\ UNCHANGED <<served, cache_file, config, channel_extractor, last, prev,
                   passes, channels, menu, parsed, channel_name_cache, loop,
                   instance, config_file>>

\* Lines 481-493: a valid index at the prompt of the search results does
\* the same with the result selected.
SearchWatch ==
    /\ menu.pc = "home"
    /\ config.api_key # ""
    /\ \E id \in VideoIds, now \in WatchTimes :
          /\ watched' = watched \cup {WatchedRecord(id, now)}
          /\ call' = [op |-> "search_watch", id |-> id]
    /\ UNCHANGED <<served, cache_file, config, channel_extractor, last, prev,
                   passes, channels, menu, parsed, channel_name_cache, loop,
                   instance, config_file>>

\* watched_history (lines 498-527): the history is listed and a record
\* may be opened again; the history is only read.
WatchedHistory ==
    /\ menu.pc = "home"
    /\ call' = [op |-> "watched_history", id |-> ""]
    /\ UNCHANGED <<served, cache_file, config, channel_extractor, last, prev,
                   passes, channels, menu, parsed, watched, channel_name_cache,
                   loop, instance, config_file>>

NextWatched == NextMenu \/ Watch \/ SearchWatch \/ WatchedHistory

SpecWatched == InitWatched /\ [][NextWatched]_vars

\* -------------------------------------------------------------- SpecNames
\* Extractor.get_channel_names (extractor.py 124-158) called again and
\* again on one Extractor, whose channel_name_cache was loaded from
\* NAMES_FILE.

\* the titles channels().list can return for a channel
Titles == {"t1", "t2"}

Names == Titles \cup {"Unknown"}

\* dict.update: the entries of g added to f, replacing those f has
Update(f, g) ==
    [c \in DOMAIN f \cup DOMAIN g |-> IF c \in DOMAIN g THEN g[c] ELSE f[c]]

\* dict.setdefault(cid, "Unknown") for every cid of ids
SetDefaults(f, ids) ==
    [c \in DOMAIN f \cup ids |-> IF c \in DOMAIN f THEN f[c] ELSE "Unknown"]

\* a lookup that asks for every id again
Remaining_All(channel_ids, cache) == channel_ids

\* line 136: the ids that are not in the cache
Remaining(channel_ids, cache) == channel_ids \ DOMAIN cache

\* What channels().list(...).execute() does when asked for the ids of
\* asked: a response with a title for some of them, or HttpError.
NameResponses(asked) ==
    {[kind |-> "response", names |-> names] :
        names \in UNION {[S -> Titles] : S \in SUBSET asked}}
    \cup {[kind |-> "HttpError", names |-> <<>>]}

\* get_channel_names (lines 124-158) on the ids channel_ids, with the
\* cache as it is and api what the call at 141-144 does if it is made.
get_channel_names(channel_ids, cache, api) ==
    LET cached_names == [c \in channel_ids \cap DOMAIN cache |-> cache[c]]
        remaining_ids == Remaining(channel_ids, cache)
    IN IF remaining_ids = {}
       THEN [outcome |-> "returned", result |-> cached_names, cache |-> cache,
             api_calls |-> 0]
       ELSE IF api.kind = "HttpError"
       THEN [outcome |-> "ValueError", result |-> <<>>, cache |-> cache,
             api_calls |-> 1]
       ELSE [outcome |-> "returned",
             result |-> SetDefaults(Update(cached_names, api.names), remaining_ids),
             cache |-> SetDefaults(Update(cache, api.names), remaining_ids),
             api_calls |-> 1]

InitNames ==
    /\ served = [c \in 1..1 |-> <<>>]
    /\ cache_file = EmptyCache
    /\ config = [min_video_length |-> 1, days_filter |-> 1, api_key |-> "KEY"]
    /\ channel_extractor = StartExtractor(config.api_key)
    /\ last = NoPass
    /\ prev = NoPrev
    /\ passes = [p \in Procs |-> Idle]
    /\ channels = <<>>
    /\ menu = Home
    /\ parsed = NotParsed
    /\ call = NoOperation
    /\ watched = {}
    /\ channel_name_cache \in UNION {[S -> Names] : S \in SUBSET {"UCa"}}
    /\ loop = [pc |-> "none"]
    /\ instance = [pc |-> "none"]
    /\ config_file = [exists |-> FALSE]

GetChannelNames ==
    /\ \E channel_ids \in SUBSET ChannelIds :
          \E api \in NameResponses(Remaining(channel_ids, channel_name_cache)) :
             LET done == get_channel_names(channel_ids, channel_name_cache, api)
             IN /\ channel_name_cache' = done.cache
                /\ call' = [op |-> "get_channel_names", ids |-> channel_ids,
                            outcome |-> done.outcome, result |-> done.result,
                            api_calls |-> done.api_calls]
    /\ UNCHANGED <<served, cache_file, config, channel_extractor, last, prev,
                   passes, channels, menu, parsed, watched, loop, instance,
                   config_file>>

NextNames == GetChannelNames

SpecNames == InitNames /\ [][NextNames]_vars

\* --------------------------------------------------------------- SpecMain
\* main() of main.py (lines 487-504): the menu loop over the Interface of
\* the same file.

\* how many selections the model lets the user make
MaxPrompts == 4

\* what interface.main_menu() returns: input(), any text (main.py 270-292)
Selections == {"1", "2", "3", "4", "5", "6", "7", "8", "9", "q", "x", ""}

\* the methods of Interface that main() calls, and the quit branch's print
Handlers == {"videos_menu", "channels_menu", "settings_menu", "show_message",
             "print_goodbye"}

\* Lines 494-504: what one pass of the loop calls for a selection, and
\* whether the loop goes on.
Dispatch(choice) ==
    IF choice = "1" THEN [invoked |-> <<"videos_menu">>, message |-> "", break |-> FALSE]
    ELSE IF choice = "2" THEN [invoked |-> <<"channels_menu">>, message |-> "", break |-> FALSE]
    ELSE IF choice = "3" THEN [invoked |-> <<"settings_menu">>, message |-> "", break |-> FALSE]
    ELSE IF choice = "4" THEN [invoked |-> <<"print_goodbye">>, message |-> "Goodbye!", break |-> TRUE]
    ELSE [invoked |-> <<"show_message">>, message |-> "Invalid choice!", break |-> FALSE]

\* main() has built the manager and the interface and enters the loop
Started ==
    [pc |-> "menu", prompts |-> 0, selection |-> "", invoked |-> <<>>,
     message |-> "", calls |-> [h \in Handlers |-> 0], shut_down |-> 0]

InitMain ==
    /\ served = [c \in 1..1 |-> <<>>]
    /\ cache_file = EmptyCache
    /\ config = [min_video_length |-> 2, days_filter |-> 7, api_key |-> ""]
    /\ channel_extractor = None
    /\ last = NoPass
    /\ prev = NoPrev
    /\ passes = [p \in Procs |-> Idle]
    /\ channels = <<>>
    /\ menu = Home
    /\ parsed = NotParsed
    /\ call = NoOperation
    /\ watched = {}
    /\ channel_name_cache = <<>>
    /\ loop = Started
    /\ instance = [pc |-> "none"]
    /\ config_file = [exists |-> FALSE]

\* one pass of the while loop: main_menu() returns a selection and the
\* branch for it runs
MainLoop ==
    /\ loop.pc = "menu"
    /\ loop.prompts < MaxPrompts
    /\ \E choice \in Selections :
          LET done == Dispatch(choice)
          IN loop' = [pc |-> IF done.break THEN "done" ELSE "menu",
                      prompts |-> loop.prompts + 1,
                      selection |-> choice,
                      invoked |-> done.invoked,
                      message |-> done.message,
                      calls |-> [h \in Handlers |->
                                    loop.calls[h] + IF InSeq(h, done.invoked) THEN 1 ELSE 0],
                      shut_down |-> loop.shut_down]
    /\ UNCHANGED <<served, cache_file, config, channel_extractor, last, prev,
                   passes, channels, menu, parsed, call, watched,
                   channel_name_cache, instance, config_file>>

NextMain == MainLoop

SpecMain == InitMain /\ [][NextMain]_vars

\* ----------------------------------------------------------- SpecInstance
\* instance.py: main() (lines 22-28) and watch_video (lines 9-19), run on
\* a command line.

\* the most arguments after the program name
MaxArgs == 3

\* what an argument can be
Links == {"link1", "link2", "other"}

\* sys.argv: the program name, then the arguments
CommandLines ==
    {<<"instance.py">> \o args : args \in UNION {[1..n -> Links] : n \in 0..MaxArgs}}

\* sys.argv[k], a Python index
Argv(argv, k) == argv[k + 1]

\* an entry point that plays its last argument
VideoLink_Last(argv) == argv[Len(argv)]

\* line 27: video_link = sys.argv[1]
VideoLink(argv) == Argv(argv, 1)

\* the process before main() runs
Launched(argv) ==
    [pc |-> "main", argv |-> argv, printed |-> <<>>, exit_status |-> 0,
     players |-> 0, played |-> <<>>, video_link |-> ""]

InitInstance ==
    /\ served = [c \in 1..1 |-> <<>>]
    /\ cache_file = EmptyCache
    /\ config = [min_video_length |-> 2, days_filter |-> 7, api_key |-> ""]
    /\ channel_extractor = None
    /\ last = NoPass
    /\ prev = NoPrev
    /\ passes = [p \in Procs |-> Idle]
    /\ channels = <<>>
    /\ menu = Home
    /\ parsed = NotParsed
    /\ call = NoOperation
    /\ watched = {}
    /\ channel_name_cache = <<>>
    /\ loop = [pc |-> "none"]
    /\ instance \in {Launched(argv) : argv \in CommandLines}
    /\ config_file = [exists |-> FALSE]

\* main(), lines 24-28: without an argument the message and sys.exit(1),
\* which raises SystemExit; otherwise watch_video is called on sys.argv[1]
InstanceMain ==
    /\ instance.pc = "main"
    /\ instance' = IF Len(instance.argv) < 2
                   THEN [instance EXCEPT !.pc = "exited",
                                         !.printed = Append(@, "No video link."),
                                         !.exit_status = 1]
                   ELSE [instance EXCEPT !.pc = "watch_video",
                                         !.video_link = VideoLink(instance.argv)]
    /\ UNCHANGED <<served, cache_file, config, channel_extractor, last, prev,
                   passes, channels, menu, parsed, call, watched,
                   channel_name_cache, loop, config_file>>

\* watch_video, lines 18-19: a MediaPlayer is created and plays the link;
\* main() returns after it
WatchVideo ==
    /\ instance.pc = "watch_video"
    /\ instance' = [instance EXCEPT !.pc = "returned",
                                    !.players = @ + 1,
                                    !.played = Append(@, instance.video_link)]
    /\ UNCHANGED <<served, cache_file, config, channel_extractor, last, prev,
                   passes, channels, menu, parsed, call, watched,
                   channel_name_cache, loop, config_file>>

NextInstance == InstanceMain \/ WatchVideo

SpecInstance == InitInstance /\ [][NextInstance]_vars

\* ------------------------------------------------------------- SpecConfig
\* load_config (manager.py 44-52) on a settings file that is absent or
\* holds a JSON object, as save_config (lines 54-58) writes it or as a
\* user edited it.

\* JSON values: a number or a string
JsonInt(n) == [type |-> "int", n |-> n, s |-> ""]
JsonStr(s) == [type |-> "str", n |-> 0, s |-> s]

\* line 47
default_config ==
    [days_filter |-> JsonInt(7), api_key |-> JsonStr(""), min_video_length |-> JsonInt(2)]

\* the values a settings file may give each key; "volume" is a key the
\* program does not know
FileValues ==
    [days_filter |-> {JsonInt(7), JsonInt(10)}, api_key |-> {JsonStr(""), JsonStr("TEST_API_KEY")},
     min_video_length |-> {JsonInt(2), JsonInt(5)}, volume |-> {JsonInt(50)}]

\* the JSON objects a settings file may hold
FileContents ==
    UNION {{content \in [keys -> UNION {FileValues[k] : k \in keys}] :
               \A k \in keys : content[k] \in FileValues[k]} :
           keys \in SUBSET DOMAIN FileValues}

\* a merge in which the defaults win
Merge_DefaultsFirst(defaults, loaded) ==
    [k \in DOMAIN defaults \cup DOMAIN loaded |->
        IF k \in DOMAIN defaults THEN defaults[k] ELSE loaded[k]]

\* line 52: {**default_config, **config}
Merge(defaults, loaded) ==
    [k \in DOMAIN defaults \cup DOMAIN loaded |->
        IF k \in DOMAIN loaded THEN loaded[k] ELSE defaults[k]]

\* load_config (lines 44-52) on the settings file
load_config(file) ==
    IF ~file.exists
    THEN default_config
    ELSE Merge(default_config, file.content)

InitConfig ==
    /\ served = [c \in 1..1 |-> <<>>]
    /\ cache_file = EmptyCache
    /\ config = [min_video_length |-> 2, days_filter |-> 7, api_key |-> ""]
    /\ channel_extractor = None
    /\ last = NoPass
    /\ prev = NoPrev
    /\ passes = [p \in Procs |-> Idle]
    /\ channels = <<>>
    /\ menu = Home
    /\ parsed = NotParsed
    /\ call = NoOperation
    /\ watched = {}
    /\ channel_name_cache = <<>>
    /\ loop = [pc |-> "none"]
    /\ instance = [pc |-> "none"]
    /\ config_file \in {[exists |-> FALSE, content |-> <<>>]}
                       \cup {[exists |-> TRUE, content |-> content] :
                                content \in FileContents}

\* a call of load_config; result is what it returns
LoadConfig ==
    /\ call.op = "none"
    /\ call' = [op |-> "load_config", result |-> load_config(config_file)]
    /\ UNCHANGED <<served, cache_file, config, channel_extractor, last, prev, passes,
                   channels, menu, parsed, watched, channel_name_cache, loop,
                   instance, config_file>>

NextConfig == LoadConfig

SpecConfig == InitConfig /\ [][NextConfig]_vars

\* ---------------------------------------------------------------- SpecApi
\* Interface.manage_api (interface.py lines 424-450): the answer to the
\* prompt is split into words, the longest word is taken as the key,
\* matched against the key pattern and tried with one videos().list call.

\* a word of the answer: its text, its length, and whether it is made of
\* the characters [A-Za-z0-9_-] only
Word(text, len, plain) == [text |-> text, len |-> len, plain |-> plain]

\* len(api_key) the pattern ^[A-Za-z0-9_-]{39}$ asks for
API_KEY_LENGTH == 39

ApiWords ==
    {Word("K1", 39, TRUE), Word("K2", 39, TRUE), Word("key:", 4, FALSE),
     Word("K#", 39, FALSE), Word("K1K", 40, TRUE)}

\* answer.split(): no word for a blank answer
ApiAnswers == {<<>>} \cup {<<w>> : w \in ApiWords}
              \cup {<<v, w>> : v \in {Word("key:", 4, FALSE), Word("K1", 39, TRUE)},
                               w \in ApiWords}

\* max(answer.split(), key=len): the first of the longest words
RECURSIVE Longest(_, _, _)
Longest(words, i, best) ==
    IF i > Len(words)
    THEN best
    ELSE Longest(words, i + 1, IF words[i].len > best.len THEN words[i] ELSE best)

\* api_key_pattern.match(api_key.strip())
ApiKeyPatternMatch(word) == word.plain /\ word.len = API_KEY_LENGTH

\* what lines 436-437 can meet: Extractor(...) raises (build, or the names
\* file does not load), the test call is refused with status 401, fails
\* with another HttpError or another exception, or is answered
ValidationOutcomes == {"ok", "ExtractorRaises", "HttpError401", "HttpError", "Exception"}

manage_api(cfg, extractor, answer, outcome) ==
    IF answer = <<>>
    THEN [config |-> cfg, channel_extractor |-> extractor, saved |-> FALSE,
          message |-> ""]
    ELSE LET api_key == Longest(answer, 2, answer[1])
         IN IF ~ApiKeyPatternMatch(api_key)
            THEN [config |-> cfg, channel_extractor |-> extractor, saved |-> FALSE,
                  message |-> "Invalid API Key format."]
            ELSE IF outcome = "ExtractorRaises"
            THEN [config |-> cfg, channel_extractor |-> extractor, saved |-> FALSE,
                  message |-> "Error validating API Key"]
            ELSE IF outcome = "HttpError401"
            THEN [config |-> cfg, channel_extractor |-> Extractor(api_key.text),
                  saved |-> FALSE, message |-> "Invalid API Key."]
            ELSE IF outcome \in {"HttpError", "Exception"}
            THEN [config |-> cfg, channel_extractor |-> Extractor(api_key.text),
                  saved |-> FALSE, message |-> "Error validating API Key"]
            ELSE [config |-> [cfg EXCEPT !.api_key = api_key.text],
                  channel_extractor |-> Extractor(api_key.text),
                  saved |-> TRUE, message |-> "API Key updated!"]

\* json.dump(self.config, f)
Dump(cfg) ==
    [days_filter |-> JsonInt(cfg.days_filter), api_key |-> JsonStr(cfg.api_key),
     min_video_length |-> JsonInt(cfg.min_video_length)]

InitApi ==
    /\ served = [c \in 1..1 |-> <<>>]
    /\ cache_file = EmptyCache
    /\ config \in [min_video_length : {2}, days_filter : {7}, api_key : {"", "K1"}]
    /\ channel_extractor = StartExtractor(config.api_key)
    /\ last = NoPass
    /\ prev = NoPrev
    /\ passes = [p \in Procs |-> Idle]
    /\ channels = <<>>
    /\ menu = Home
    /\ parsed = NotParsed
    /\ InitApp

ManageApi ==
    \E answer \in ApiAnswers, outcome \in ValidationOutcomes :
        \E done \in {manage_api(config, channel_extractor, answer, outcome)} :
            /\ config' = done.config
            /\ channel_extractor' = done.channel_extractor
            /\ config_file' = IF done.saved
                              THEN [exists |-> TRUE, content |-> Dump(done.config)]
                              ELSE config_file
            /\ call' = [op |-> "manage_api", answer |-> answer,
                        message |-> done.message]
            /\ UNCHANGED <<served, cache_file, last, prev, passes, channels, menu,
                           parsed, watched, channel_name_cache, loop, instance>>

NextApi == ManageApi

SpecApi == InitApi /\ [][NextApi]_vars

\* ------------------------------------------------------------- SpecSelect
\* The prompts of videos_menu (interface.py lines 243-298) and of
\* search_menu (lines 471-493): a table is drawn, a choice is read, and a
\* valid index puts the video's details into the watch history and opens
\* the video.

\* longest video list the model shows
MaxListed == 2
\* watch-history records the model lets one session add
MaxWatched == 1
\* results[:15]: the rows the search table shows
SHOWN_RESULTS == 15

\* a video as the menus read it: the newer manager's record, with its
\* duration in seconds
ListedVideo(id, title, author, duration_seconds) ==
    [id |-> id, title |-> title, author |-> author,
     duration_seconds |-> duration_seconds]

\* ten minutes, two and a half minutes, half an hour
ListedVideos ==
    {ListedVideo("a", "Ta", "Ch1", 600), ListedVideo("b", "Tb", "Ch2", 150),
     ListedVideo("d", "Td", "Ch1", 1800)}

VideoLists ==
    {videos \in UNION {[1..n -> ListedVideos] : n \in 1..MaxListed} :
        \A i, j \in 1..Len(videos) : i # j => videos[i] # videos[j]}

\* what search_youtube_videos returned: n results, the i-th lasting i minutes
SearchResults(n) ==
    [i \in 1..n |-> ListedVideo(ToString(i), ToString(i), "Ch", 60 * i)]

ResultCounts == {1, 2, SHOWN_RESULTS, SHOWN_RESULTS + 1}

\* round(n / d): Python rounds a half to the even neighbour
Round(n, d) ==
    LET q == n \div d
        r == n % d
    IN IF 2 * r < d THEN q
       ELSE IF 2 * r > d THEN q + 1
       ELSE IF q % 2 = 0 THEN q ELSE q + 1

\* f"{round(seconds / 60)} min", known by its number of minutes
DurationText(seconds) == [min |-> Round(seconds, 60)]

\* the answers to a prompt: texts of up to two characters
Chars == {"0", "1", "2", "6", " ", "-", "a"}
Digits == {"0", "1", "2", "6"}
Choices == UNION {[1..n -> Chars] : n \in 0..2}

DigitValue(c) ==
    CASE c = "0" -> 0 [] c = "1" -> 1 [] c = "2" -> 2 [] c = "6" -> 6 [] OTHER -> 0

\* str.strip()
RECURSIVE Strip(_)
Strip(text) ==
    IF text = <<>> THEN text
    ELSE IF Head(text) = " " THEN Strip(Tail(text))
    ELSE IF text[Len(text)] = " " THEN Strip(SubSeq(text, 1, Len(text) - 1))
    ELSE text

\* str.isdigit(): at least one character, all of them digits
IsDigit(text) == text # <<>> /\ \A i \in 1..Len(text) : text[i] \in Digits

RECURSIVE DigitsValue(_)
DigitsValue(text) ==
    IF text = <<>> THEN 0
    ELSE 10 * DigitsValue(SubSeq(text, 1, Len(text) - 1)) + DigitValue(text[Len(text)])

\* int(text): surrounding blanks and one sign are accepted, then digits;
\* anything else raises ValueError
ParseInt(text) ==
    LET stripped == Strip(text)
        signed == stripped # <<>> /\ Head(stripped) = "-"
        body == IF signed THEN Tail(stripped) ELSE stripped
    IN IF IsDigit(body)
       THEN [raises |-> FALSE,
             value |-> IF signed THEN 0 - DigitsValue(body) ELSE DigitsValue(body)]
       ELSE [raises |-> TRUE, value |-> 0]

\* video_details (lines 288-294 and 483-489)
VideoDetails(video, watched_at, duration) ==
    [title |-> video.title, id |-> video.id, author |-> video.author,
     watched_at |-> watched_at, duration |-> duration]

\* duration as lines 293 and 488 read it: the variable the loop that drew
\* the table (lines 243-259, 471-478) assigned last, which is the duration
\* of the last row drawn
RowDuration(videos, shown) ==
    DurationText(videos[shown].duration_seconds)

Min(a, b) == IF a < b THEN a ELSE b

\* What a choice at the prompt leads to. guarded tells videos_menu, which
\* returns on a blank choice and calls int(choice) to test for 0, the
\* refresh, before choice.isdigit() is asked (lines 262-264), from
\* search_menu, which starts at the isdigit test (line 481).
Prompted(videos, choice, guarded) ==
    LET n == ParseInt(choice)
    IN IF guarded /\ Strip(choice) = <<>>
       THEN [outcome |-> "return", index |-> 0]
       ELSE IF guarded /\ n.raises
       THEN [outcome |-> "ValueError", index |-> 0]
       ELSE IF guarded /\ n.value = 0
       THEN [outcome |-> "refresh", index |-> 0]
       ELSE IF IsDigit(choice) /\ 1 <= n.value /\ n.value <= Len(videos)
       THEN [outcome |-> "play", index |-> n.value]
       ELSE [outcome |-> "none", index |-> 0]

InitSelect ==
    /\ served = [c \in SourceIds |-> <<>>]
    /\ cache_file = EmptyCache
    /\ config = [min_video_length |-> 1, days_filter |-> 1, api_key |-> "KEY"]
    /\ channel_extractor = StartExtractor(config.api_key)
    /\ last = NoPass
    /\ prev = NoPrev
    /\ passes = [p \in Procs |-> Idle]
    /\ channels = <<1>>
    /\ menu \in {[Home EXCEPT !.pc = "list", !.videos = videos, !.message = "fetched"] :
                    videos \in VideoLists}
    /\ parsed = NotParsed
    /\ InitApp

\* what a prompt leaves in call and in the history
Selected(op, videos, shown, done, now) ==
    IF done.outcome = "play"
    THEN [op |-> op, outcome |-> done.outcome, index |-> done.index, shown |-> shown,
          video |-> videos[done.index],
          details |-> VideoDetails(videos[done.index], now,
                                   RowDuration(videos, shown))]
    ELSE [op |-> op, outcome |-> done.outcome, index |-> 0, shown |-> shown,
          video |-> ListedVideo("", "", "", 0),
          details |-> VideoDetails(ListedVideo("", "", "", 0), 0, DurationText(0))]

\* Lines 261-298: one turn of the loop of videos_menu.
VideosPrompt ==
    /\ menu.pc = "list"
    /\ \E choice \in Choices, now \in WatchTimes :
        \E done \in {Prompted(menu.videos, choice, TRUE)} :
          /\ done.outcome = "play" => Cardinality(watched) < MaxWatched
          /\ call' = Selected("videos_menu", menu.videos, Len(menu.videos), done, now)
          /\ watched' = IF done.outcome = "play"
                        THEN watched \cup {call'.details} ELSE watched
          /\ menu' = CASE done.outcome = "return" ->
                              [menu EXCEPT !.pc = "home", !.message = ""]
                       [] done.outcome = "ValueError" ->
                              [menu EXCEPT !.pc = "crashed", !.message = "ValueError"]
                       [] done.outcome = "refresh" ->
                              StartFetching([menu EXCEPT !.refresh = TRUE])
                       [] OTHER -> menu
    /\ UNCHANGED <<served, cache_file, config, channel_extractor, last, prev,
                   passes, channels, parsed, channel_name_cache, loop, instance,
                   config_file>>

\* Lines 461-493: search_menu with a query that found n results.
SearchPrompt ==
    /\ menu.pc = "home"
    /\ config.api_key # ""
    /\ \E n \in ResultCounts, choice \in Choices, now \in WatchTimes :
        \E done \in {Prompted(SearchResults(n), choice, FALSE)} :
          /\ done.outcome = "play" => Cardinality(watched) < MaxWatched
          /\ call' = Selected("search_menu", SearchResults(n), Min(n, SHOWN_RESULTS),
                              done, now)
          /\ watched' = IF done.outcome = "play"
                        THEN watched \cup {call'.details} ELSE watched
    /\ UNCHANGED <<served, cache_file, config, channel_extractor, last, prev,
                   passes, channels, menu, parsed, channel_name_cache, loop,
                   instance, config_file>>

NextSelect == VideosPrompt \/ SearchPrompt

SpecSelect == InitSelect /\ [][NextSelect]_vars

\* ----------------------------------------------------------------- claims

\* the record the last pass found in the cache for entry e
CachedOf(e) == last.before[LastSegment(e.id)]

CachedEntries ==
    {e \in ValidEntries(last.feed.entries) : LastSegment(e.id) \in DOMAIN last.before}

C2_WriteBeforeFilter ==
    (last.n = 1 /\ last.api.kind = "response") =>
        \A v \in DOMAIN last.api.items : v \in DOMAIN cache_file

\* C3 as stated: an entry whose id is cached is put in the output without
\* enrichment exactly when the cached duration is within the bounds and the
\* cached liveness is neither live nor upcoming.
C3_Validity ==
    last.n = 1 =>
        \A e \in CachedEntries :
            (/\ LastSegment(e.id) \in IdsOf(last.res.out)
             /\ ~InSeq(LastSegment(e.id), last.res.ids))
            <=> (/\ last.min_video_length * 60 <= CachedOf(e).duration_seconds
                 /\ CachedOf(e).duration_seconds <= MAX_SECONDS
                 /\ CachedOf(e).live_broadcast_content \notin {"live", "upcoming"})

\* C3 amended: an entry whose id is cached is classified as a cache hit
\* (appended to cached_videos, not queued for enrichment) exactly when the
\* cached duration is within the bounds, the cached liveness is neither
\* live nor upcoming, and the cached publish text has the timestamp format.
C3_HitIff ==
    last.n = 1 =>
        \A e \in CachedEntries :
            /\ LastSegment(e.id) \in IdsOf(last.res.hits)
               <=> (/\ last.min_video_length * 60 <= CachedOf(e).duration_seconds
                    /\ CachedOf(e).duration_seconds <= MAX_SECONDS
                    /\ CachedOf(e).live_broadcast_content \notin {"live", "upcoming"}
                    /\ CachedOf(e).published.fmt = "iso")
            /\ LastSegment(e.id) \in IdsOf(last.res.hits)
               => ~InSeq(LastSegment(e.id), last.res.ids)

\* a pass over a document with one cached entry that is a hit and one
\* cached entry that is not
C3_Witness ==
    /\ last.n = 1
    /\ \E e \in CachedEntries : LastSegment(e.id) \in IdsOf(last.res.hits)
    /\ \E e \in CachedEntries : LastSegment(e.id) \notin IdsOf(last.res.hits)

\* C4: a persisted record is never changed and never removed, by a pass or
\* by a change of the days or length filter.
C4_Immutable ==
    [][\A v \in DOMAIN cache_file :
           v \in DOMAIN cache_file' /\ cache_file'[v] = cache_file[v]]_vars

\* a pass that enriched and saved, over a cache holding a record that
\* failed its filter, followed by a change of the length filter
C4_Witness ==
    /\ last.n = 1
    /\ last.res.ret = "done"
    /\ config.min_video_length # last.min_video_length
    /\ \E v \in DOMAIN last.before :
           /\ last.before[v].duration_seconds < last.min_video_length * 60
           /\ cache_file[v] = last.before[v]

\* C5: when two passes that enrich different ids have both finished, the
\* persisted cache holds every record either of them wrote (no save of one
\* pass undoes the other's).
C5_NoLostUpdate ==
    (/\ \A p \in Procs : passes[p].pc = "done"
     /\ Range(passes[1].ids) \cap Range(passes[2].ids) = {}) =>
        \A p \in Procs :
            passes[p].saved => \A v \in passes[p].written : v \in DOMAIN cache_file

\* C6: when the enrichment call of a pass fails entirely (HttpError, any
\* other exception, no items, no client), the pass returns the cache hits.
C6_GracefulDegradation ==
    (/\ last.n = 1
     /\ last.res.need
     /\ \/ channel_extractor = None
        \/ last.api.kind \in {"HttpError", "Exception"}
        \/ (last.api.kind = "response" /\ DOMAIN last.api.items = {}))
    => last.res.out = last.res.hits

\* C7: a timeout on the first attempt is followed by exactly one more
\* attempt, any other error by none, and there are never more than two.
C7_BoundedRetry ==
    last.n = 1 =>
        /\ last.attempts <= 2
        /\ (last.fetch = "TimeoutError" => last.attempts = 2)
        /\ (last.fetch = "ClientError" => last.attempts = 1)

\* C8: the list parse_feeds returns has one element per channel, the i-th
\* being what the fetch of the i-th channel produced (that channel's
\* document, or None), and parse_feed ran exactly once for each channel.
C8_IndexAligned ==
    [][(menu.pc = "fetching" /\ menu'.pc # "fetching") =>
          /\ Len(menu'.parsed_feeds) = Len(channels)
          /\ \A i \in 1..Len(channels) :
                /\ menu'.parsed_feeds[i] = menu.jobs[i].result
                /\ menu'.parsed_feeds[i] \in {NilFeed, Feed(served[channels[i]])}
                /\ menu.jobs[i].calls = 1]_vars

\* two channels with different documents whose fetches completed in the
\* opposite order: parse_feeds has returned both documents, each in its
\* channel's place
C8_Witness ==
    /\ menu.pc = "aggregating"
    /\ menu.order = <<2, 1>>
    /\ menu.parsed_feeds[1] = Feed(served[channels[1]])
    /\ menu.parsed_feeds[2] = Feed(served[channels[2]])
    /\ menu.parsed_feeds[1] # menu.parsed_feeds[2]

\* C9: a channel whose parsed feed is None or has no entries contributes
\* the empty list, the loop goes on over every channel, and the merged
\* list holds every video the other channels contribute.
C9_FailedSourceIsolated ==
    menu.pc = "merged" =>
        /\ Len(menu.outs) = Len(channels)
        /\ \A i \in 1..Len(channels) :
              /\ (menu.parsed_feeds[i].nil \/ menu.parsed_feeds[i].entries = <<>>) =>
                     menu.outs[i] = <<>>
              /\ \A k \in 1..Len(menu.outs[i]) : InSeq(menu.outs[i][k], menu.videos)

\* the first channel contributes a video, the second channel's fetch
\* ended with None
C9_Witness ==
    /\ menu.pc = "merged"
    /\ Len(channels) = 2
    /\ menu.outs[1] # <<>>
    /\ menu.parsed_feeds[2].nil
    /\ menu.videos = menu.outs[1]

\* C10: fetch_videos runs on a channel only when no fetch is in flight and
\* parse_feeds has returned the full list, and on one channel per step.
C10_Barrier ==
    [][(menu'.i # menu.i /\ menu'.i # 0) =>
          /\ menu'.i = menu.i + 1
          /\ AllDone(menu.jobs)
          /\ Len(menu.parsed_feeds) = Len(channels)
          /\ Len(menu'.outs) = menu'.i]_vars

\* both channels aggregated after fetches that completed out of order
C10_Witness ==
    /\ menu.i = 2
    /\ menu.order = <<2, 1>>
    /\ menu.outs[1] # <<>>
    /\ menu.outs[2] # <<>>

\* C11: during parse_feeds at most MAX_WORKERS fetches are in flight at any
\* moment, and the call ends with every channel's fetch started (once) and
\* completed.
C11_BoundedPool ==
    /\ [](Cardinality(Running(menu.jobs)) <= MAX_WORKERS)
    /\ [](menu.pc = "fetching" => \A i \in 1..Len(menu.jobs) :
              menu.jobs[i].calls = IF menu.jobs[i].st = "queued" THEN 0 ELSE 1)
    /\ <>(menu.pc = "aggregating" /\ Len(menu.parsed_feeds) = Len(channels))

\* the pool is saturated: MAX_WORKERS fetches in flight, one channel waiting
C11_Witness ==
    /\ menu.pc = "fetching"
    /\ Cardinality(Running(menu.jobs)) = MAX_WORKERS
    /\ \E i \in 1..Len(menu.jobs) : menu.jobs[i].st = "queued"

\* where the p-th record of a list belongs when the list is ordered by
\* publish time, latest first, records of the same instant in list order
Rank(videos, p) ==
    1 + Cardinality({q \in 1..Len(videos) : videos[q].published > videos[p].published})
      + Cardinality({q \in 1..(p - 1) : videos[q].published = videos[p].published})

StableSorted(videos) ==
    [k \in 1..Len(videos) |-> videos[CHOOSE p \in 1..Len(videos) : Rank(videos, p) = k]]

\* C12: the list a refresh shows is the concatenation of the channels'
\* lists ordered by publish time descending, records of the same instant in
\* the order of the concatenation, less what the recency cutoff drops.
C12_MergeOrder ==
    [][(menu.pc = "merged" /\ menu'.pc \in {"list", "home"} /\ menu.videos # <<>>) =>
          menu'.videos = AfterCutoff(StableSorted(menu.videos), menu'.cutoff_date)]_vars

\* the first channel gave b then a, the second gave d, published at the
\* same instant as a: the list shown is a, d, b
C12_Witness ==
    /\ menu.pc = "list"
    /\ Len(menu.outs) = 2
    /\ [k \in 1..Len(menu.outs[1]) |-> menu.outs[1][k].id] = <<"b", "a">>
    /\ [k \in 1..Len(menu.outs[2]) |-> menu.outs[2][k].id] = <<"d">>
    /\ [k \in 1..Len(menu.videos) |-> menu.videos[k].id] = <<"a", "d", "b">>

\* C13: after the merge a refresh keeps exactly the records that are not
\* older than now minus days_filter days, a record published at the cutoff
\* instant included.
C13_Cutoff ==
    [][(menu.pc = "merged" /\ menu'.pc \in {"list", "home"} /\ menu.videos # <<>>) =>
          /\ \E now \in Nows :
                menu'.cutoff_date = now - config.days_filter * HOURS_PER_DAY
          /\ menu'.videos =
                SelectSeq(StableSorted(menu.videos),
                          LAMBDA video : video.published >= menu'.cutoff_date)]_vars

\* C14: in the first cycle and in every refresh, an empty merged list ends
\* the menu with the "no videos" message before any cutoff is computed,
\* and the read of the first record never meets an empty list.
C14_ShortCircuit ==
    [][/\ menu'.pc # "crashed"
       /\ (menu.pc = "merged" /\ menu.videos = <<>>) =>
              /\ menu'.pc = "home"
              /\ menu'.message = "check_subscriptions"
              /\ menu'.videos = <<>>
              /\ menu'.cutoff_date = menu.cutoff_date]_vars

\* a refresh by choice 0, after a list was shown, that merged nothing
C14_Witness ==
    /\ menu.pc = "home"
    /\ menu.refresh
    /\ menu.message = "check_subscriptions"
    /\ menu.outs # <<>>
    /\ menu.videos = <<>>

\* C15: with no channel subscribed the menu returns with a message: no
\* feed fetch is started, no fetch_videos pass runs (so no enrichment call
\* and no cache access), and the cache file is left alone.
C15_NoChannels ==
    [][channels = <<>> =>
          /\ menu'.pc = "home"
          /\ menu'.message = "add_channel_first"
          /\ menu'.jobs = <<>> /\ menu'.parsed_feeds = <<>>
          /\ menu'.outs = <<>> /\ menu'.videos = <<>>
          /\ cache_file' = cache_file]_vars

\* the menu was entered with no channel and has returned
C15_Witness ==
    /\ channels = <<>>
    /\ menu.pc = "home"
    /\ menu.message = "add_channel_first"

\* the document without its malformed entries
WithoutMalformed(entries) ==
    SelectSeq(entries, LAMBDA e : e.has_id /\ HasColon(e.id))

\* C16: a pass over a document returns the list, asks for the ids and
\* leaves the cache that the pass over the same document without its
\* malformed entries (no id, or no ":" in the id) would.
C16_MalformedSkipped ==
    last.n = 1 =>
        LET ref == fetch_videos(Feed(WithoutMalformed(last.feed.entries)), last.before,
                                last.min_video_length, channel_extractor, last.api)
        IN /\ last.res.out = ref.out
           /\ last.res.ids = ref.ids
           /\ last.res.disk = ref.disk

\* C17: the list a refresh shows never holds two records with the same
\* video id.
C17_Deduplicated ==
    menu.pc = "list" =>
        \A i, j \in 1..Len(menu.videos) :
            i # j => menu.videos[i].id # menu.videos[j].id

\* C18: any two records of the list a pass returns stand in the order of
\* their entries in the feed document.
C18_SourceOrder ==
    last.n = 1 =>
        \A i, j \in 1..Len(last.res.out) :
            i < j =>
                \E p, q \in 1..Len(last.feed.entries) :
                    /\ p < q
                    /\ LastSegment(last.feed.entries[p].id) = last.res.out[i].id
                    /\ last.feed.entries[p].link = last.res.out[i].link
                    /\ LastSegment(last.feed.entries[q].id) = last.res.out[j].id
                    /\ last.feed.entries[q].link = last.res.out[j].link

\* C19: for a text with any of the day, hour, minute and second counts
\* present, the seconds returned are days*86400 + hours*3600 + minutes*60 +
\* seconds.
C19_Additive ==
    (parsed.called /\ parsed.kind = "iso") =>
        parsed.seconds = parsed.d * 86400 + parsed.h * 3600 + parsed.m * 60 + parsed.s

\* C20: for a text in which no component matches, 0 is returned and the
\* text is reported.
C20_NoMatchIsZero ==
    (parsed.called /\ DurationMatch(parsed.duration).groups = {}) =>
        (parsed.seconds = 0 /\ parsed.warned)

\* C21: when reading or writing the cache file fails during fetch_videos,
\* the caller receives something other than the empty list a normal pass
\* returns.
C21_IOSurfaced ==
    (last.n = 1 /\ last.io_failed) => last.res.out # <<>>

\* the ids sent to the enrichment call of the last pass that its response
\* does not hold
AbsentIds == Range(last.res.ids) \ DOMAIN last.api.items

\* the entries of the last pass's document whose id is v
EntriesOf(v) ==
    {e \in Range(last.feed.entries) : e.has_id /\ LastSegment(e.id) = v}

\* C22: in a pass whose enrichment response lacks some of the ids sent,
\* an absent id is neither in the output nor written to the cache, the
\* pass raises nothing and makes one enrichment call, and every id the
\* response holds is cached, and returned when it passes the filters.
C22_PartialEnrichment ==
    (last.n = 1 /\ last.api.kind = "response" /\ AbsentIds # {}) =>
        /\ ~last.res.raised
        /\ last.res.calls = 1
        /\ \A v \in AbsentIds :
              /\ v \notin IdsOf(last.res.out)
              /\ v \in DOMAIN last.res.disk => v \in DOMAIN last.before
        /\ \A v \in DOMAIN last.api.items :
              LET item == last.api.items[v]
                  total_seconds == iso_duration_to_seconds(item.duration)
              IN /\ v \in DOMAIN last.res.disk
                 /\ v \in IdsOf(last.res.out) <=>
                       /\ CacheValid(total_seconds, item.liveBroadcastContent,
                                     last.min_video_length)
                       /\ \E e \in EntriesOf(v) : strptime(e.published).ok

\* videos_menu has returned without a list of videos: the subscription
\* list was empty (line 301), nothing was merged (lines 224, 275) or
\* nothing passed the cutoff (lines 231, 282)
NoVideosFound ==
    /\ menu.pc = "home"
    /\ menu.message \in {"add_channel_first", "check_subscriptions", "check_filters"}

\* what videos_menu shows with no subscription (line 301)
NoChannelsResult == "add_channel_first"

\* C23: whatever left the refresh without videos (no subscription, every
\* fetch failed, the filters excluded every video), the user is shown
\* what is shown with no subscription.
C23_SameResult ==
    NoVideosFound => menu.message = NoChannelsResult

\* s is t with some of its elements left out, the others in t's order
RECURSIVE IsSubsequence(_, _)
IsSubsequence(s, t) ==
    IF s = <<>> THEN TRUE
    ELSE IF t = <<>> THEN FALSE
    ELSE IF Head(s) = Head(t) THEN IsSubsequence(Tail(s), Tail(t))
    ELSE IsSubsequence(s, Tail(t))

\* C24: from a list without duplicates, add_channel and remove_channels
\* keep the list free of duplicates; adding a subscribed id leaves the
\* list as it was; add_channel only appends at the end and
\* remove_channels only takes ids out, so the ids that stay keep their
\* insertion order.
C24_UniqueOrdered ==
    [][/\ NoDuplicates(channels')
       /\ (call'.op = "add_channel" /\ call'.answer.kind = "link"
             /\ InSeq(call'.answer.id, channels)) => channels' = channels
       /\ call'.op = "add_channel" =>
             \/ channels' = channels
             \/ channels' = Append(channels, call'.answer.id)
       /\ call'.op = "remove_channels" => IsSubsequence(channels', channels)]_vars

\* UCb was entered again with UCa and UCb subscribed in that order
C24_Witness ==
    /\ call.op = "add_channel"
    /\ call.message = "already_exists"
    /\ call.answer.id = "UCb"
    /\ call.before = <<"UCa", "UCb">>
    /\ channels = <<"UCa", "UCb">>

RECURSIVE Concat(_)
Concat(lists) ==
    IF lists = <<>> THEN <<>> ELSE Head(lists) \o Concat(Tail(lists))

\* the ids of a table's rows, or of a list's videos, in order
IdSeq(rows) == [idx \in 1..Len(rows) |-> rows[idx].id]

\* C25: whatever the watch history holds, the table of the video list
\* has the rows, in the order, that the refresh produced from what the
\* channels returned (the rows an empty history gives), and no step takes
\* a record out of the history.
C25_MarksOnly ==
    /\ [](menu.pc = "list" =>
            /\ IdSeq(DrawTable(menu.videos, watched)) =
                  IdSeq(AfterCutoff(StableSorted(Concat(menu.outs)), menu.cutoff_date))
            /\ IdSeq(DrawTable(menu.videos, watched)) =
                  IdSeq(DrawTable(menu.videos, {})))
    /\ [][watched \subseteq watched']_vars

\* after a refresh the list shows a and b, a selected before the refresh
\* and drawn dim
C25_Witness ==
    /\ menu.pc = "list"
    /\ menu.refresh
    /\ IdSeq(menu.videos) = <<"a", "b">>
    /\ \E w \in watched : w.id = "a" /\ w.watched_at > 0
    /\ DrawTable(menu.videos, watched)[1].color = "dim"
    /\ DrawTable(menu.videos, watched)[2].color = "white"

\* C26: a get_channel_names call that returns leaves every id it was
\* asked for in the name cache and returns a name for each, the one the
\* cache now holds; no call changes or drops a name the cache held; and a
\* call whose ids are all in the cache makes no API call and returns the
\* names the cache held. So a later call over ids resolved before asks
\* nothing and returns the same names.
C26_NamesCached ==
    [][(call'.op = "get_channel_names" /\ call'.outcome = "returned") =>
          /\ call'.ids \subseteq DOMAIN channel_name_cache'
          /\ DOMAIN call'.result = call'.ids
          /\ \A c \in call'.ids :
                /\ call'.result[c] = channel_name_cache'[c]
                /\ call'.result[c] \in Names
          /\ \A c \in DOMAIN channel_name_cache :
                /\ c \in DOMAIN channel_name_cache'
                /\ channel_name_cache'[c] = channel_name_cache[c]
          /\ call'.ids \subseteq DOMAIN channel_name_cache =>
                /\ call'.api_calls = 0
                /\ \A c \in call'.ids : call'.result[c] = channel_name_cache[c]
          /\ (call.op = "get_channel_names" /\ call.outcome = "returned"
                /\ call'.ids \subseteq call.ids) =>
                /\ call'.api_calls = 0
                /\ \A c \in call'.ids : call'.result[c] = call.result[c]]_vars

\* UCb and UCc were asked for after a call that resolved UCa, UCb and
\* UCc, UCc to no title: no API call, the same names
C26_Witness ==
    /\ call.op = "get_channel_names"
    /\ call.outcome = "returned"
    /\ call.ids = {"UCb", "UCc"}
    /\ call.api_calls = 0
    /\ call.result["UCb"] = "t2"
    /\ call.result["UCc"] = "Unknown"
    /\ DOMAIN channel_name_cache = ChannelIds

\* C27: main() leaves its loop on the selection 'q' and on no other; on
\* 'q' it has called shut_down once, and the pass that read 'q' is the
\* last.
C27_QuitOnQ ==
    /\ [](loop.pc = "done" => (loop.selection = "q" /\ loop.shut_down = 1))
    /\ [][loop'.selection = "q" => loop'.pc = "done"]_loop

\* the handler each selection '1'..'9' is to invoke
HandlerOf(choice) ==
    CASE choice = "1" -> "videos_menu"
      [] choice = "2" -> "search_menu"
      [] choice = "3" -> "watched_history"
      [] choice = "4" -> "add_channel"
      [] choice = "5" -> "list_channels"
      [] choice = "6" -> "remove_channels"
      [] choice = "7" -> "days_filter"
      [] choice = "8" -> "length_filter"
      [] choice = "9" -> "manage_api"

MenuKeys == {"1", "2", "3", "4", "5", "6", "7", "8", "9"}

\* C28: a pass of the loop that read one of '1'..'9' invoked that
\* selection's handler once and nothing else; a pass that read anything
\* but '1'..'9' and 'q' showed "Invalid choice!" once, invoked no handler
\* and went back to the menu.
C28_Dispatch ==
    [][/\ loop'.selection \in MenuKeys =>
             loop'.invoked = <<HandlerOf(loop'.selection)>>
       /\ loop'.selection \notin MenuKeys \cup {"q"} =>
             /\ loop'.invoked = <<"show_message">>
             /\ loop'.message = "Invalid choice!"
             /\ loop'.pc = "menu"]_loop

\* C29: instance.main() without an argument prints "No video link.",
\* exits with a status other than 0 and creates no player; with one or
\* more arguments it plays the first argument once, on one player, and
\* nothing else.
C29_EntryPoint ==
    /\ instance.pc \in {"exited", "returned"} =>
          IF Len(instance.argv) < 2
          THEN /\ instance.pc = "exited"
               /\ instance.printed = <<"No video link.">>
               /\ instance.exit_status # 0
          ELSE /\ instance.pc = "returned"
               /\ instance.printed = <<>>
               /\ instance.exit_status = 0
               /\ instance.players = 1
               /\ instance.played = <<instance.argv[2]>>
    /\ instance.pc \in {"main", "watch_video", "exited"} =>
          /\ instance.players = 0
          /\ instance.played = <<>>

\* three arguments, the first played, the others different from it
C29_Witness ==
    /\ instance.pc = "returned"
    /\ instance.argv = <<"instance.py", "link1", "other", "link2">>
    /\ instance.played = <<"link1">>
    /\ instance.players = 1

ConfigKeys == {"days_filter", "api_key", "min_video_length"}

\* C30: what load_config returned holds days_filter, api_key and
\* min_video_length; without a settings file it is days_filter 7, api_key
\* "", min_video_length 2; with one, every key of the file has the file's
\* value and every other key its default.
C30_ConfigDefaults ==
    call.op = "load_config" =>
        /\ ConfigKeys \subseteq DOMAIN call.result
        /\ ~config_file.exists =>
              /\ DOMAIN call.result = ConfigKeys
              /\ call.result["days_filter"] = JsonInt(7)
              /\ call.result["api_key"] = JsonStr("")
              /\ call.result["min_video_length"] = JsonInt(2)
        /\ config_file.exists =>
              /\ \A k \in DOMAIN config_file.content :
                    k \in DOMAIN call.result /\ call.result[k] = config_file.content[k]
              /\ \A k \in DOMAIN call.result \ DOMAIN config_file.content :
                    k \in ConfigKeys /\ call.result[k] = default_config[k]

\* a file with days_filter 10 and an unknown key: 10 from the file, the
\* other two settings from the defaults
C30_Witness ==
    /\ call.op = "load_config"
    /\ config_file.exists
    /\ DOMAIN config_file.content = {"days_filter", "volume"}
    /\ call.result["days_filter"] = JsonInt(10)
    /\ call.result["api_key"] = JsonStr("")
    /\ call.result["min_video_length"] = JsonInt(2)
    /\ call.result["volume"] = JsonInt(50)

\* the cached entries of the last pass's document whose record passes the
\* filter and holds a publish text that strptime rejects
UnparseableHits ==
    {e \in CachedEntries :
        /\ CacheValid(CachedOf(e).duration_seconds,
                      CachedOf(e).live_broadcast_content, last.min_video_length)
        /\ ~strptime(CachedOf(e).published).ok}

\* C31: in a pass of a manager that has an enrichment client, every cached
\* entry whose record passes the filter but whose publish text cannot be
\* parsed is queued for enrichment, and the pass makes an enrichment call
\* that carries its id.
C31_UnparseableEnriched ==
    (last.n = 1 /\ channel_extractor.client) =>
        \A e \in UnparseableHits :
            /\ InSeq(LastSegment(e.id), last.res.ids)
            /\ last.res.calls = 1

\* what the filter of the last pass was applied to for the i-th video it
\* returned: the cached record for a cache hit (the first Len(hits)
\* videos), the item of the enrichment response for the others
FilteredAs(i) ==
    LET v == last.res.out[i].id
    IN IF i <= Len(last.res.hits)
       THEN [total_seconds |-> last.before[v].duration_seconds,
             live_broadcast_content |-> last.before[v].live_broadcast_content]
       ELSE [total_seconds |-> iso_duration_to_seconds(last.api.items[v].duration),
             live_broadcast_content |-> last.api.items[v].liveBroadcastContent]

\* C32: every video a pass returns, cache hit or freshly enriched, has a
\* duration between min_video_length*60 and MAX_SECONDS, with the minimum
\* in force during the pass, and is neither live nor upcoming.
C32_OutputFiltered ==
    last.n = 1 =>
        \A i \in 1..Len(last.res.out) :
            /\ last.min_video_length * 60 <= FilteredAs(i).total_seconds
            /\ FilteredAs(i).total_seconds <= MAX_SECONDS
            /\ FilteredAs(i).live_broadcast_content \notin {"live", "upcoming"}

\* a pass that returned a cache hit and a freshly enriched video
C32_Witness ==
    /\ last.n = 1
    /\ last.res.ret = "done"
    /\ Len(last.res.hits) > 0
    /\ Len(last.res.out) > Len(last.res.hits)

\* every entry of the last pass's document that has an id with a ":" is
\* cached with a record that passes the filter and parses
AllHits ==
    \A e \in ValidEntries(last.feed.entries) :
        /\ LastSegment(e.id) \in DOMAIN last.before
        /\ CacheValid(CachedOf(e).duration_seconds,
                      CachedOf(e).live_broadcast_content, last.min_video_length)
        /\ strptime(CachedOf(e).published).ok

\* C33: a pass in which every valid entry is a currently valid cache hit
\* makes no enrichment call, calls save_cache not once and leaves
\* CACHE_FILE as it was.
C33_AllHitNoEffect ==
    (last.n = 1 /\ AllHits) =>
        /\ last.res.calls = 0
        /\ last.res.saves = 0
        /\ cache_file = last.before

\* a pass that returned its two entries from the cache alone
C33_Witness ==
    /\ last.n = 1
    /\ AllHits
    /\ last.res.ret = "all_cached"
    /\ Len(last.res.out) = 2

\* C34: a pass makes at most one enrichment call, and the call it makes
\* carries every id the cache-check loop queued for enrichment and no id
\* of a video it accepted as a cache hit.
C34_SingleBatch ==
    last.n = 1 =>
        /\ last.res.calls <= 1
        /\ last.res.calls = 1 =>
              /\ \A v \in Range(last.res.ids) : InSeq(v, last.res.asked)
              /\ \A v \in IdsOf(last.res.hits) : ~InSeq(v, last.res.asked)

\* a pass whose one call carried two ids
C34_Witness ==
    /\ last.n = 1
    /\ last.res.calls = 1
    /\ Len(last.res.ids) = 2
    /\ last.res.ids[1] # last.res.ids[2]
    /\ last.api.kind = "response"

\* the document without the entries whose publish text strptime rejects
WithoutUnparseable(entries) ==
    SelectSeq(entries, LAMBDA e : strptime(e.published).ok)

\* the pass the last one would have been on the document without those
\* entries, with the same cache, filter, client and enrichment answer
ParseableRun ==
    fetch_videos(Feed(WithoutUnparseable(last.feed.entries)), last.before,
                 last.min_video_length, channel_extractor, last.api)

\* C35: no video a pass returns comes from an entry whose publish text is
\* not in the timestamp format, and the pass returns what it would return
\* on the document without those entries.
C35_ParseFailureSkipped ==
    last.n = 1 =>
        /\ \A i \in 1..Len(last.res.out) :
              \E e \in Range(last.feed.entries) :
                  /\ e.link = last.res.out[i].link
                  /\ strptime(e.published).ok
        /\ last.res.out = ParseableRun.out

\* C36: CACHE_FILE differs from its content before a pass only when the
\* pass reached the save after the loop; a pass that an exception ended
\* while it processed the enrichment items, after any number of per-item
\* saves, leaves the file with the content it had before.
C36_AllOrNothing ==
    last.n = 1 =>
        /\ cache_file # last.before => (last.res.ret = "done" /\ ~last.res.raised)
        /\ (last.res.raised /\ last.res.saves > 0) => cache_file = last.before

\* a pass that cached an item, ran the per-item save and was then ended
\* by an exception
C36_Witness ==
    /\ last.n = 1
    /\ last.res.raised
    /\ last.res.saves > 0
    /\ \E v \in DOMAIN last.api.items : v \notin DOMAIN last.before

\* the messages manage_api ends with when the key is not accepted
KeyRejected ==
    {"Invalid API Key format.", "Invalid API Key.", "Error validating API Key"}

\* C37: the client the manager holds was built with the key stored in
\* config['api_key'], and a manage_api call whose key fails the format or
\* the online validation changes neither the stored key nor the client.
C37_KeyClientConsistent ==
    /\ [](channel_extractor.client =>
              channel_extractor.developerKey = config.api_key)
    /\ [][(call'.op = "manage_api" /\ call'.message \in KeyRejected) =>
              (config' = config /\ channel_extractor' = channel_extractor)]_vars

\* C38: when a prompt of the video list or of the search results ends
\* with a video played, the index chosen is one of the rows shown, and the
\* history holds a record with the id, the title, the author and the
\* duration of the video at that index.
C38_RecordMatches ==
    (call.op \in {"videos_menu", "search_menu"} /\ call.outcome = "play") =>
        /\ call.index \in 1..call.shown
        /\ \E w \in watched :
              /\ w.id = call.video.id
              /\ w.title = call.video.title
              /\ w.author = call.video.author
              /\ w.duration = DurationText(call.video.duration_seconds)

\* C39: an add_channel call that ended with an error message left the
\* subscription list as it was, and a call that changed the list ended
\* with "New channel added!".
C39_AddAtomic ==
    call.op = "add_channel" =>
        /\ call.message = "error" => channels = call.before
        /\ channels # call.before => call.message = "added"

\* C40: whatever is typed at the prompt of the video list, the turn of
\* the loop returns, refreshes, plays the video at the index or prompts
\* again with the list and the history unchanged; it never raises.
C40_PromptTotal ==
    [][(menu.pc = "list" /\ call'.op = "videos_menu") =>
          /\ call'.outcome \in {"return", "refresh", "play", "none"}
          /\ call'.outcome = "return" => menu'.pc = "home"
          /\ call'.outcome = "refresh" => menu'.pc = "fetching"
          /\ call'.outcome = "play" =>
                (call'.index \in 1..Len(menu.videos) /\ menu' = menu)
          /\ call'.outcome = "none" => (menu' = menu /\ watched' = watched)]_vars

====
